---------------------------- MODULE Spec2Model ----------------------------
(***************************************************************************)
(* Self-corrected RAG pipeline                                             *)
(* (src/src/pipeline/rag_pipeline.py, src/src/agents/agents.py,            *)
(* src/src/validators.py, src/metrics.py).                                 *)
(*                                                                         *)
(* A text (str) is a sequence of one-character strings or of opaque        *)
(* tokens; "" is << >>.  Python's None is the value None below.            *)
(***************************************************************************)
EXTENDS Integers, Sequences, FiniteSets, TLC

(***************************************************************************)
(* Bounds of the model.                                                    *)
(***************************************************************************)
MaxAttempts == 3
MaxDocs == 2
MaxFilterDocs == 3
MaxQueryLength == 2
MaxContextLength == 9
MaxRawQueryLength == 5
\* record_query and clear_metrics calls made on one collector
MaxCollectorCalls == 3
\* keys in a dot-separated configuration path
MaxKeyDepth == 2
\* characters in a file path given to load_document
MaxPathLength == 4

(***************************************************************************)
(* Program constants.                                                      *)
(***************************************************************************)
MinScore == 1
MaxScore == 5

None == <<"<None>">>
NoneResult == [none |-> TRUE]

(***************************************************************************)
(* Characters.  " " and "\t" are whitespace (\s), "NUL" is \x00, "SOH" is  *)
(* a control character below 32 that is not whitespace, "a" is any other   *)
(* character.  ControlChars are the characters with ord(char) < 32.        *)
(***************************************************************************)
Whitespace == {" ", "\t"}
ControlChars == {"NUL", "SOH", "\t"}
QuestionAlphabet == {"a", " "}

RECURSIVE StringsUpTo(_, _)
StringsUpTo(alphabet, n) ==
    IF n = 0 THEN {<< >>}
    ELSE LET shorter == StringsUpTo(alphabet, n - 1)
         IN  shorter \cup {Append(s, c) : s \in shorter, c \in alphabet}

Questions == StringsUpTo(QuestionAlphabet, MaxQueryLength + 1)

\* questions over every kind of character
RawAlphabet == {"a", " ", "\t", "NUL", "SOH"}
RawQuestions == StringsUpTo(RawAlphabet, MaxRawQueryLength)

(***************************************************************************)
(* Inputs from the collaborators: passages, error texts of raised          *)
(* exceptions (str(e), which may be empty), classifier outcomes.           *)
(***************************************************************************)
ErrTexts == {<< >>, <<"boom">>}
Outcomes == {"relevant", "irrelevant", "error"}
Scores == MinScore..MaxScore

\* what the scoring model may answer before it is parsed into an Evaluation
RawScores == (MinScore - 1)..(MaxScore + 1)

\* every score is accepted
EvaluationAcceptsAny(score) == TRUE

\* Evaluation(score=score, ...) passes validation: ge=1, le=5
EvaluationAccepts(score) == score >= MinScore /\ score <= MaxScore

\* the text of the error raised for a score out of range
ScoreErrorText == <<"score out of range">>

\* passage d is d characters long
page_content(d) == [k \in 1..d |-> ToString(d)]

IsInjective(s) == \A i, j \in 1..Len(s) : s[i] = s[j] => i = j

\* what the retriever may return: passage k is the k-th of the list
RetrievedLists == {[k \in 1..n |-> k] : n \in 0..MaxDocs}

\* passage lists handed to filter_documents directly: distinct Document
\* objects in any order
DocLists ==
    {s \in StringsUpTo(1..MaxFilterDocs, MaxFilterDocs) : IsInjective(s)}

(***************************************************************************)
(* validators.py                                                           *)
(***************************************************************************)
RECURSIVE RemoveAll(_, _)
RemoveAll(s, chars) ==
    IF s = << >> THEN << >>
    ELSE IF Head(s) \in chars THEN RemoveAll(Tail(s), chars)
    ELSE <<Head(s)>> \o RemoveAll(Tail(s), chars)

\* re.sub(r'\s+', ' ', text)
RECURSIVE CollapseWhitespace(_)
CollapseWhitespace(s) ==
    IF s = << >> THEN << >>
    ELSE IF Head(s) \in Whitespace
         THEN IF Tail(s) # << >> /\ Head(Tail(s)) \in Whitespace
              THEN CollapseWhitespace(Tail(s))
              ELSE <<" ">> \o CollapseWhitespace(Tail(s))
         ELSE <<Head(s)>> \o CollapseWhitespace(Tail(s))

_sanitize_input(text) ==
    LET noNull == RemoveAll(text, {"NUL"})
        collapsed == CollapseWhitespace(noNull)
    IN  RemoveAll(collapsed, ControlChars \ {"\n", "\t"})

RECURSIVE LStrip(_)
LStrip(s) ==
    IF s # << >> /\ Head(s) \in Whitespace THEN LStrip(Tail(s)) ELSE s

RECURSIVE RStrip(_)
RStrip(s) ==
    IF s # << >> /\ s[Len(s)] \in Whitespace
    THEN RStrip(SubSeq(s, 1, Len(s) - 1)) ELSE s

strip(s) == RStrip(LStrip(s))

QueryIsEmpty(query) == query = << >>

QueryTooLong(query, max_query_length) == Len(query) > max_query_length

\* InputValidator.validate_query: [ok, value, error]
validate_query(query, max_query_length) ==
    IF QueryIsEmpty(query)
    THEN [ok |-> FALSE, value |-> query, error |-> <<"Query cannot be empty">>]
    ELSE IF QueryTooLong(query, max_query_length)
    THEN [ok |-> FALSE, value |-> query,
          error |-> <<"Query exceeds maximum length of ",
                      ToString(max_query_length), " characters">>]
    ELSE [ok |-> TRUE, value |-> strip(_sanitize_input(query)), error |-> << >>]

(***************************************************************************)
(* rag_pipeline.py: context assembly and canned results                    *)
(***************************************************************************)
Separator == <<"\n", "\n", "-", "-", "-", "\n", "\n">>
TruncationMarker ==
    <<"\n", "\n", "[", "C", "o", "n", "t", "e", "x", "t", " ", "t", "r", "u",
      "n", "c", "a", "t", "e", "d", ".", ".", ".", "]">>

RECURSIVE Join(_, _)
Join(sep, parts) ==
    IF parts = << >> THEN << >>
    ELSE IF Len(parts) = 1 THEN parts[1]
    ELSE parts[1] \o sep \o Join(sep, Tail(parts))

\* a context as long as the bound is truncated too
JoinAndTruncateAtBound(texts, max_context_length) ==
    LET context == Join(Separator, texts)
    IN  IF Len(context) >= max_context_length
        THEN SubSeq(context, 1, max_context_length) \o TruncationMarker
        ELSE context

\* the marker is put in front of the truncated context
JoinAndTruncateMarkerFirst(texts, max_context_length) ==
    LET context == Join(Separator, texts)
    IN  IF Len(context) > max_context_length
        THEN TruncationMarker \o SubSeq(context, 1, max_context_length)
        ELSE context

\* _prepare_context on the passage texts: join, then truncate
JoinAndTruncate(texts, max_context_length) ==
    LET context == Join(Separator, texts)
    IN  IF Len(context) > max_context_length
        THEN SubSeq(context, 1, max_context_length) \o TruncationMarker
        ELSE context

_prepare_context(docs, max_context_length) ==
    JoinAndTruncate([i \in 1..Len(docs) |-> page_content(docs[i])],
                    max_context_length)

NoInformationAnswer ==
    <<"I could not find any relevant information to answer this question.">>

_create_no_documents_result(q) ==
    [question |-> q, answer |-> NoInformationAnswer, score |-> 0,
     score_justification |-> <<"No documents retrieved">>,
     source_context |-> << >>, documents_retrieved |-> 0,
     documents_after_filter |-> 0, correction_attempts |-> 0,
     success |-> FALSE, error_message |-> <<"No documents retrieved">>]

_create_no_relevant_context_result(q, total_docs) ==
    [question |-> q, answer |-> NoInformationAnswer, score |-> 0,
     score_justification |-> <<"No relevant context found after filtering">>,
     source_context |-> << >>, documents_retrieved |-> total_docs,
     documents_after_filter |-> 0, correction_attempts |-> 0,
     success |-> FALSE,
     error_message |-> <<"No relevant documents after filtering">>]

\* the error text is left out of the result
ErrorResultWithoutMessage(q, text) ==
    [question |-> q, answer |-> <<"Error: ">> \o text, score |-> 0,
     score_justification |-> <<"Pipeline execution failed">>,
     source_context |-> << >>, documents_retrieved |-> 0,
     documents_after_filter |-> 0, correction_attempts |-> 0,
     success |-> FALSE, error_message |-> None]

\* the RAGResult built by the except branch of run()
ErrorResult(q, text) ==
    [question |-> q, answer |-> <<"Error: ">> \o text, score |-> 0,
     score_justification |-> <<"Pipeline execution failed">>,
     source_context |-> << >>, documents_retrieved |-> 0,
     documents_after_filter |-> 0, correction_attempts |-> 0,
     success |-> FALSE, error_message |-> text]

(***************************************************************************)
(* metrics.py                                                              *)
(***************************************************************************)
create_query_metrics(q) ==
    [question |-> q, documents_retrieved |-> 0, documents_after_filter |-> 0,
     filter_rejection_rate |-> <<0, 1>>, final_score |-> 0,
     correction_attempts |-> 0, success |-> TRUE, error_message |-> None]

\* only successful queries are recorded
record_query_successes(enabled, list, m) ==
    IF enabled /\ m.success THEN Append(list, m) ELSE list

\* MetricsCollector.record_query: the list after the call
record_query(enabled, list, m) == IF enabled THEN Append(list, m) ELSE list

\* the metrics file: not written yet, or as a failed write leaves it (its
\* old content, or new content cut short)
NoFile == [state |-> "absent", queries |-> << >>]
StaleFile == [state |-> "stale", queries |-> << >>]
WrittenFile(list) == [state |-> "written", queries |-> list]

\* how the write of _save_to_file ends
SaveOutcomes == {"written", "failed"}

\* MetricsCollector._save_to_file: the file after the call, which catches
\* every error of the write
_save_to_file(outcome, list, file) ==
    IF outcome = "written" THEN WrittenFile(list) ELSE StaleFile


(***************************************************************************)
(* State.                                                                  *)
(*   cfg            the pipeline's configuration, fixed at construction    *)
(*   pc             where run() is: "idle", "retrieve", "filter",          *)
(*                  "generate", "evaluate" (awaiting that call), "done"    *)
(*   verdicts       what the relevance classifier answers for each passage *)
(*                  under check                                            *)
(*   fpc .. f_justifications   locals of GuardrailAgent.filter_documents   *)
(*   completed      the order in which the parallel checks completed       *)
(*   attempts       the attempts evaluated so far in this run              *)
(*   *_calls        calls issued to each collaborator in this run          *)
(*   retriever_returns   retriever calls that returned a passage list      *)
(*   raised         the error raised in this run, by stage and text        *)
(*   hpc, par_out, seq_out   a driver calling filter_documents in both     *)
(*                  modes on one passage list                              *)
(***************************************************************************)
VARIABLES cfg, pc, question, documents, verdicts,
          fpc, fi, inflight, results, completed,
          f_relevant_docs, f_justifications, classifier_calls,
          relevant_docs, context, attempt, answer, best_result, best_score,
          attempts, metrics, query_metrics, result,
          retriever_calls, generator_calls, scorer_calls, record_query_calls,
          metrics_file, current, parked,
          lock, tpc, targ, history, apc, agg,
          _instance, handles, _config, last_op, assigned,
          lpc, file_path, validate_paths, checks, loaded,
          bpc, file_paths, bi, all_documents, errors, loads, batch_raised,
          vector_store_manager, rag_pipeline, current_kb_name, chat_history,
          run_calls, web_log,
          retriever_returns, raised, hpc, par_out, seq_out

filterVars == <<fpc, fi, inflight, results, completed,
                f_relevant_docs, f_justifications, classifier_calls>>
loopVars == <<context, attempt, answer, best_result, best_score, attempts>>
exitVars == <<pc, metrics, query_metrics, result, record_query_calls,
              metrics_file>>
callVars == <<retriever_calls, generator_calls, scorer_calls>>
obsVars == <<retriever_returns, raised>>
driverVars == <<hpc, par_out, seq_out>>
schedVars == <<current, parked>>
collectorVars == <<lock, tpc, targ, history, apc, agg>>
configVars == <<_instance, handles, _config, last_op, assigned>>
loaderVars == <<lpc, file_path, validate_paths, checks, loaded>>
batchVars == <<bpc, file_paths, bi, all_documents, errors, loads, batch_raised>>
webVars == <<vector_store_manager, rag_pipeline, current_kb_name, chat_history,
             run_calls, web_log>>
frontVars == <<batchVars, webVars>>
otherVars == <<schedVars, collectorVars, configVars, loaderVars, frontVars>>
vars == <<cfg, question, documents, verdicts, relevant_docs,
          filterVars, loopVars, exitVars, callVars, obsVars, driverVars,
          otherVars>>

NoError == [stage |-> "none", text |-> << >>]

(***************************************************************************)
(* The locals of a run() call (rag_pipeline.py:92-249) live in the frame   *)
(* of its coroutine.  The variables above hold the frame of the call that  *)
(* is running, current; parked holds the frame of a second call on the     *)
(* same pipeline, suspended at an await.  cfg, the collector               *)
(* (query_metrics, metrics_file, record_query_calls) and the collaborators *)
(* belong to the pipeline and are shared.                                  *)
(***************************************************************************)
FreshFrame ==
    [pc |-> "idle", question |-> << >>, documents |-> << >>,
     verdicts |-> << >>, fpc |-> "idle", fi |-> 0, inflight |-> {},
     results |-> << >>, completed |-> << >>, f_relevant_docs |-> << >>,
     f_justifications |-> << >>, classifier_calls |-> 0,
     relevant_docs |-> << >>, context |-> << >>, attempt |-> 0,
     answer |-> << >>, best_result |-> NoneResult, best_score |-> 0,
     attempts |-> << >>, metrics |-> create_query_metrics(<< >>),
     result |-> NoneResult, retriever_calls |-> 0, generator_calls |-> 0,
     scorer_calls |-> 0, retriever_returns |-> 0, raised |-> NoError]

CurrentFrame ==
    [pc |-> pc, question |-> question, documents |-> documents,
     verdicts |-> verdicts, fpc |-> fpc, fi |-> fi, inflight |-> inflight,
     results |-> results, completed |-> completed,
     f_relevant_docs |-> f_relevant_docs,
     f_justifications |-> f_justifications,
     classifier_calls |-> classifier_calls,
     relevant_docs |-> relevant_docs, context |-> context,
     attempt |-> attempt, answer |-> answer, best_result |-> best_result,
     best_score |-> best_score, attempts |-> attempts, metrics |-> metrics,
     result |-> result, retriever_calls |-> retriever_calls,
     generator_calls |-> generator_calls, scorer_calls |-> scorer_calls,
     retriever_returns |-> retriever_returns, raised |-> raised]

\* no second call
SchedIdle == current = 1 /\ parked = FreshFrame

\* the records that took effect after the last clear, oldest first
RECURSIVE RecordsSinceLastClear(_)
RecordsSinceLastClear(h) ==
    IF h = << >> THEN << >>
    ELSE IF h[Len(h)].op = "clear" THEN << >>
    ELSE Append(RecordsSinceLastClear(SubSeq(h, 1, Len(h) - 1)),
                h[Len(h)].metrics)

\* the threads that call the collector
Threads == {1, 2}

\* AggregateMetrics(): the counters of a fresh aggregate
AggregateMetrics ==
    [total_queries |-> 0, successful_queries |-> 0, failed_queries |-> 0]

\* no thread is in the collector, the lock is free
CollectorIdle ==
    /\ lock = 0
    /\ tpc = [t \in Threads |-> "idle"]
    /\ targ = [t \in Threads |-> create_query_metrics(<< >>)]
    /\ history = << >>
    /\ apc = "idle"
    /\ agg = [metrics |-> AggregateMetrics, quiet |-> TRUE, recorded |-> 0]

(***************************************************************************)
(* config_loader.py.  A configuration is a tree of dicts; it is held as    *)
(* the node found at each key path: "absent", "dict" or a scalar value.    *)
(***************************************************************************)
Keys == {"a", "b"}
KeyPaths == StringsUpTo(Keys, MaxKeyDepth) \ {<< >>}
ConfigValues == {"v1", "v2"}
Default == "default"

\* Config._config = {}
EmptyConfig == [p \in KeyPaths |-> "absent"]

IsProperPrefix(p, q) == Len(p) < Len(q) /\ SubSeq(q, 1, Len(p)) = p

ProperPrefixes(p) == {SubSeq(p, 1, i) : i \in 1..(Len(p) - 1)}

\* Config.get: value[key] down the path; a missing key (KeyError) or a
\* value that is no dict on the way (TypeError) gives the default
get(config, key_path, default) ==
    IF /\ \A q \in ProperPrefixes(key_path) : config[q] = "dict"
       /\ config[key_path] # "absent"
    THEN config[key_path]
    ELSE default

\* Config.set raises TypeError when a key before the last one holds a value
\* that is no dict
SetRaises(config, key_path) ==
    \E q \in ProperPrefixes(key_path) : config[q] \in ConfigValues

\* Config.set: missing dicts on the way are created, the last key is
\* assigned, and what was below it is gone
set(config, key_path, value) ==
    IF SetRaises(config, key_path) THEN config
    ELSE [q \in KeyPaths |->
             IF q = key_path THEN value
             ELSE IF IsProperPrefix(q, key_path) THEN "dict"
             ELSE IF IsProperPrefix(key_path, q) THEN "absent"
             ELSE config[q]]

\* required_sections of _validate_config
RequiredSections == Keys

\* what yaml.safe_load returns for the files load may be given
LoadableConfigs ==
    {[p \in KeyPaths |-> IF Len(p) = 1 THEN "dict" ELSE "v1"],
     [p \in KeyPaths |-> IF p = <<"a">> THEN "v2" ELSE "absent"]}

NoOp == [op |-> "none", path |-> << >>, value |-> Default, raised |-> FALSE]

\* no Config() call was made
ConfigIdle ==
    /\ _instance = 0
    /\ handles = {}
    /\ _config = EmptyConfig
    /\ last_op = NoOp
    /\ assigned = {}

(***************************************************************************)
(* validators.py, loaders/document_loader.py.  A file path is a sequence   *)
(* of characters; "d" is a letter, "txt", "PDF" and "docx" are runs of     *)
(* letters.                                                                *)
(***************************************************************************)
PathAlphabet == {"/", ".", "d", "txt", "PDF", "docx"}
FilePaths == StringsUpTo(PathAlphabet, MaxPathLength)

\* '..' in file_path
HasDotDot(file) == \E i \in 1..(Len(file) - 1) : file[i] = "." /\ file[i + 1] = "."

\* absolute paths are let through
validate_file_path_relative_or_not(file) ==
    IF file = << >>
    THEN [ok |-> FALSE, value |-> file, error |-> "ValidationError"]
    ELSE IF HasDotDot(file)
    THEN [ok |-> FALSE, value |-> file, error |-> "ValidationError"]
    ELSE [ok |-> TRUE, value |-> file, error |-> "none"]

\* InputValidator.validate_file_path
validate_file_path(file) ==
    IF file = << >>
    THEN [ok |-> FALSE, value |-> file, error |-> "ValidationError"]
    ELSE IF HasDotDot(file) \/ file[1] = "/"
    THEN [ok |-> FALSE, value |-> file, error |-> "ValidationError"]
    ELSE [ok |-> TRUE, value |-> file, error |-> "none"]

\* the components of a path, split at "/"
RECURSIVE Components(_)
Components(file) ==
    IF file = << >> THEN <<<< >>>>
    ELSE LET rest == Components(Tail(file))
         IN  IF Head(file) = "/" THEN <<<< >>>> \o rest
             ELSE <<<<Head(file)>> \o Head(rest)>> \o Tail(rest)

\* Path(file_path).name: the last component; empty components and "."
\* components are dropped by Path
PathName(file) ==
    LET parts == Components(file)
        kept == {i \in 1..Len(parts) : parts[i] \notin {<< >>, <<".">>}}
    IN  IF kept = {} THEN << >>
        ELSE parts[CHOOSE i \in kept : \A j \in kept : j <= i]

lower(c) == IF c = "PDF" THEN "pdf" ELSE c

\* Path(file_path).suffix.lower(): from the last dot of the name, when that
\* dot is neither its first nor its last character
Suffix(file) ==
    LET name == PathName(file)
        dots == {i \in 1..Len(name) : name[i] = "."}
    IN  IF dots = {} THEN << >>
        ELSE LET i == CHOOSE d \in dots : \A e \in dots : e <= d
             IN  IF i > 1 /\ i < Len(name)
                 THEN [k \in 1..(Len(name) - i + 1) |-> lower(name[i + k - 1])]
                 ELSE << >>

\* DocumentLoader.SUPPORTED_FORMATS
SUPPORTED_FORMATS == {<<".", "pdf">>, <<".", "txt">>, <<".", "md">>}

NoLoad == [kind |-> "none", message |-> "none"]

\* raise DocumentLoaderError(message)
DocumentLoaderError(message) ==
    [kind |-> "DocumentLoaderError", message |-> message]

\* no load_document call was made
LoaderIdle ==
    /\ lpc = "idle"
    /\ file_path = << >>
    /\ validate_paths = TRUE
    /\ checks = << >>
    /\ loaded = NoLoad

\* no load_documents call was made
BatchIdle ==
    /\ bpc = "idle"
    /\ file_paths = << >>
    /\ bi = 0
    /\ all_documents = << >>
    /\ errors = << >>
    /\ loads = << >>
    /\ batch_raised = "none"

\* app.py:36-38, before any handler ran; 0 stands for None
WebIdle ==
    /\ vector_store_manager = 0
    /\ rag_pipeline = 0
    /\ current_kb_name = None
    /\ chat_history = << >>
    /\ run_calls = 0
    /\ web_log = << >>

FrontIdle == BatchIdle /\ WebIdle

OtherIdle == SchedIdle /\ CollectorIdle /\ ConfigIdle /\ LoaderIdle /\ FrontIdle

\* a record whose save failed is taken off the list again
RecordQueryDropsUnsaved(m) ==
    /\ record_query_calls' = record_query_calls + 1
    /\ IF cfg.metrics_enabled
       THEN \E outcome \in SaveOutcomes :
                /\ metrics_file' =
                       _save_to_file(outcome, Append(query_metrics, m),
                                     metrics_file)
                /\ query_metrics' =
                       IF outcome = "written" THEN Append(query_metrics, m)
                       ELSE query_metrics
       ELSE UNCHANGED <<query_metrics, metrics_file>>

\* MetricsCollector.record_query(m), its _save_to_file included
RecordQuery(m) ==
    /\ record_query_calls' = record_query_calls + 1
    /\ query_metrics' = record_query(cfg.metrics_enabled, query_metrics, m)
    /\ IF cfg.metrics_enabled
       THEN \E outcome \in SaveOutcomes :
                metrics_file' =
                    _save_to_file(outcome, query_metrics', metrics_file)
       ELSE UNCHANGED metrics_file

(***************************************************************************)
(* agents.py: GuardrailAgent                                               *)
(***************************************************************************)
ClassifierJustification(d) == <<"verdict on passage ", ToString(d)>>
ClassifierErrorText(d) == <<"check failed on passage ", ToString(d)>>
ErrorJustification(d) == <<"Error during check: ">> \o ClassifierErrorText(d)

\* a check that raised counts as a verdict of irrelevant
check_doc_fail_closed(doc, index, outcome) ==
    <<index, doc, [is_relevant |-> (outcome = "relevant"),
                   justification |-> IF outcome = "error"
                                     THEN ErrorJustification(doc)
                                     ELSE ClassifierJustification(doc)]>>

\* the (index, doc, result) a check_doc task returns
check_doc(doc, index, outcome) ==
    IF outcome = "error"
    THEN <<index, doc, [is_relevant |-> TRUE,
                        justification |-> ErrorJustification(doc)]>>
    ELSE <<index, doc, [is_relevant |-> (outcome = "relevant"),
                        justification |-> ClassifierJustification(doc)]>>

RECURSIVE InsertByIndex(_, _)
InsertByIndex(s, x) ==
    IF s = << >> THEN <<x>>
    ELSE IF x[1] < s[Len(s)][1]
         THEN Append(InsertByIndex(SubSeq(s, 1, Len(s) - 1), x), s[Len(s)])
         ELSE Append(s, x)

\* sorted(results, key=lambda x: x[0])
RECURSIVE SortedByIndex(_)
SortedByIndex(s) ==
    IF s = << >> THEN << >>
    ELSE InsertByIndex(SortedByIndex(SubSeq(s, 1, Len(s) - 1)), s[Len(s)])

\* the task results as a collector that appends them as they complete has them
ResultsAsCompleted == [k \in 1..Len(completed) |-> results[completed[k]]]

\* asyncio.gather returns the task results in task order; the loop then
\* walks them sorted by index
JoinedResults == SortedByIndex([k \in 1..Len(documents) |-> results[k]])

IsRelevantResult(r) == r[3].is_relevant

\* the empty passage list is not checked for
FilterCallWithoutEmptyCheck(docs, parallel, calls) ==
    /\ results' = << >>
    /\ completed' = << >>
    /\ f_relevant_docs' = << >>
    /\ f_justifications' = << >>
    /\ IF parallel /\ Len(docs) > 1
       THEN /\ fpc' = "parallel"
            /\ fi' = 0
            /\ inflight' = 1..Len(docs)
            /\ classifier_calls' = calls + Len(docs)
       ELSE /\ fpc' = "sequential"
            /\ fi' = 1
            /\ inflight' = {1}
            /\ classifier_calls' = calls + 1

\* the passages are checked one after the other whatever parallel says
FilterCallOneAtATime(docs, parallel, calls) ==
    /\ results' = << >>
    /\ completed' = << >>
    /\ f_relevant_docs' = << >>
    /\ f_justifications' = << >>
    /\ IF docs = << >>
       THEN /\ fpc' = "returned"
            /\ fi' = 0
            /\ inflight' = {}
            /\ classifier_calls' = calls
       ELSE /\ fpc' = "sequential"
            /\ fi' = 1
            /\ inflight' = {1}
            /\ classifier_calls' = calls + 1

\* filter_documents up to its first await
FilterCall(docs, parallel, calls) ==
    /\ results' = << >>
    /\ completed' = << >>
    /\ f_relevant_docs' = << >>
    /\ f_justifications' = << >>
    /\ IF docs = << >>
       THEN /\ fpc' = "returned"
            /\ fi' = 0
            /\ inflight' = {}
            /\ classifier_calls' = calls
       ELSE IF parallel /\ Len(docs) > 1
       THEN /\ fpc' = "parallel"
            /\ fi' = 0
            /\ inflight' = 1..Len(docs)
            /\ classifier_calls' = calls + Len(docs)
       ELSE /\ fpc' = "sequential"
            /\ fi' = 1
            /\ inflight' = {1}
            /\ classifier_calls' = calls + 1

\* the error of a check leaves gather and filter_documents and reaches run()
CheckDocDoneRaises(i) ==
    /\ fpc = "parallel"
    /\ i \in inflight
    /\ IF verdicts[i] = "error"
       THEN /\ metrics' =
                   [metrics EXCEPT
                      !.success = FALSE,
                      !.error_message = ClassifierErrorText(documents[i])]
            /\ RecordQuery(metrics')
            /\ result' =
                   ErrorResult(question, ClassifierErrorText(documents[i]))
            /\ pc' = "done"
            /\ raised' = [stage |-> "classifier",
                          text |-> ClassifierErrorText(documents[i])]
            /\ UNCHANGED filterVars
       ELSE /\ inflight' = inflight \ {i}
            /\ results' =
                   (i :> check_doc(documents[i], i, verdicts[i])) @@ results
            /\ completed' = Append(completed, i)
            /\ UNCHANGED <<fpc, fi, f_relevant_docs, f_justifications,
                           classifier_calls>>
            /\ UNCHANGED <<exitVars, raised>>
    /\ UNCHANGED retriever_returns
    /\ UNCHANGED <<cfg, question, documents, verdicts, relevant_docs,
                   loopVars, callVars,
                   driverVars, otherVars>>

\* _filter_parallel: the check of passage i completes
CheckDocDone(i) ==
    /\ fpc = "parallel"
    /\ i \in inflight
    /\ inflight' = inflight \ {i}
    /\ results' = (i :> check_doc(documents[i], i, verdicts[i])) @@ results
    /\ completed' = Append(completed, i)
    /\ UNCHANGED <<fpc, fi, f_relevant_docs, f_justifications, classifier_calls>>
    /\ UNCHANGED obsVars
    /\ UNCHANGED <<cfg, question, documents, verdicts, relevant_docs,
                   loopVars, exitVars, callVars,
                   driverVars, otherVars>>

\* the justification of every passage is returned, kept or not
GatherDoneEveryJustification ==
    /\ fpc = "parallel"
    /\ inflight = {}
    /\ LET kept == SelectSeq(JoinedResults, IsRelevantResult)
       IN  /\ f_relevant_docs' = [k \in 1..Len(kept) |-> kept[k][2]]
           /\ f_justifications' = [k \in 1..Len(JoinedResults) |->
                                      JoinedResults[k][3].justification]
    /\ fpc' = "returned"
    /\ UNCHANGED <<fi, inflight, results, completed, classifier_calls>>
    /\ UNCHANGED obsVars
    /\ UNCHANGED <<cfg, question, documents, verdicts, relevant_docs,
                   loopVars, exitVars, callVars,
                   driverVars, otherVars>>

\* _filter_parallel: gather returns, the relevant passages are collected
GatherDone ==
    /\ fpc = "parallel"
    /\ inflight = {}
    /\ LET kept == SelectSeq(JoinedResults, IsRelevantResult)
       IN  /\ f_relevant_docs' = [k \in 1..Len(kept) |-> kept[k][2]]
           /\ f_justifications' = [k \in 1..Len(kept) |-> kept[k][3].justification]
    /\ fpc' = "returned"
    /\ UNCHANGED <<fi, inflight, results, completed, classifier_calls>>
    /\ UNCHANGED obsVars
    /\ UNCHANGED <<cfg, question, documents, verdicts, relevant_docs,
                   loopVars, exitVars, callVars,
                   driverVars, otherVars>>

\* a passage whose check raised is dropped
SeqVerdictFailClosed(doc, outcome) ==
    [keep |-> (outcome = "relevant"),
     justification |-> ClassifierJustification(doc)]

\* one iteration of _filter_sequential: is the passage appended, and with
\* which justification
SeqVerdict(doc, outcome) ==
    IF outcome = "error"
    THEN [keep |-> TRUE, justification |-> ErrorJustification(doc)]
    ELSE [keep |-> (outcome = "relevant"),
          justification |-> ClassifierJustification(doc)]

\* _filter_sequential: the check of passage fi completes; next iteration
SeqCheckDone ==
    /\ fpc = "sequential"
    /\ LET doc == documents[fi]
           v == SeqVerdict(doc, verdicts[fi])
       IN  IF v.keep
           THEN /\ f_relevant_docs' = Append(f_relevant_docs, doc)
                /\ f_justifications' = Append(f_justifications, v.justification)
           ELSE UNCHANGED <<f_relevant_docs, f_justifications>>
    /\ IF fi < Len(documents)
       THEN /\ fi' = fi + 1
            /\ inflight' = {fi + 1}
            /\ classifier_calls' = classifier_calls + 1
            /\ UNCHANGED fpc
       ELSE /\ fpc' = "returned"
            /\ inflight' = {}
            /\ UNCHANGED <<fi, classifier_calls>>
    /\ UNCHANGED <<results, completed>>
    /\ UNCHANGED obsVars
    /\ UNCHANGED <<cfg, question, documents, verdicts, relevant_docs,
                   loopVars, exitVars, callVars,
                   driverVars, otherVars>>

\* the locals of filter_documents after its caller took the return value
FilterIdle ==
    /\ fpc' = "idle"
    /\ fi' = 0
    /\ inflight' = {}
    /\ results' = << >>
    /\ completed' = << >>
    /\ f_relevant_docs' = << >>
    /\ f_justifications' = << >>
    /\ verdicts' = << >>
    /\ UNCHANGED classifier_calls

(***************************************************************************)
(* rag_pipeline.py: SelfCorrectedRAGPipeline.run                           *)
(***************************************************************************)
AnswerText(n) == <<"answer ", ToString(n)>>
ScoreJustification(n) == <<"justification ", ToString(n)>>

\* the except branch of run(): metrics, one record, the error result
Fail(q, m, text) ==
    /\ metrics' = [m EXCEPT !.success = FALSE, !.error_message = text]
    /\ RecordQuery(metrics')
    /\ result' = ErrorResult(q, text)
    /\ pc' = "done"

\* run() after _execute_with_correction returned r
Return(q, m, r) ==
    IF r = NoneResult
    THEN Fail(q, m, <<"'NoneType' object has no attribute 'score'">>)
    ELSE /\ metrics' = [m EXCEPT !.success = TRUE, !.final_score = r.score]
         /\ RecordQuery(metrics')
         /\ result' = r
         /\ pc' = "done"

\* run() up to the retriever call
RunStart(q) ==
    /\ pc = "idle"
    /\ LET v == validate_query(q, cfg.max_query_length)
           m == create_query_metrics(q)
       IN  IF v.ok
           THEN /\ question' = v.value
                /\ metrics' = m
                /\ retriever_calls' = retriever_calls + 1
                /\ pc' = "retrieve"
                /\ UNCHANGED <<query_metrics, result, record_query_calls,
                               metrics_file, raised>>
           ELSE /\ question' = q
                /\ Fail(q, m, v.error)
                /\ raised' = [stage |-> "validation", text |-> v.error]
                /\ UNCHANGED retriever_calls
    /\ UNCHANGED retriever_returns
    /\ UNCHANGED <<cfg, documents, verdicts, relevant_docs, filterVars,
                   loopVars, generator_calls, scorer_calls,
                   driverVars, otherVars>>

\* the empty retrieval is not checked for
NoDocumentsUnchecked(docs) == FALSE

NoDocuments(docs) == docs = << >>

\* the loop goes on until an answer is accepted
HasNextAttemptUnbounded(next, max_correction_attempts) == TRUE

\* one iteration too many
HasNextAttemptInclusive(next, max_correction_attempts) ==
    next <= max_correction_attempts

HasNextAttempt(next, max_correction_attempts) == next < max_correction_attempts

\* lines 183-200: context, metrics, the loop's first generator call
EnterLoop(docs, rel) ==
    /\ context' = _prepare_context(rel, cfg.max_context_length)
    /\ metrics' = [metrics EXCEPT
                     !.documents_retrieved = Len(docs),
                     !.documents_after_filter = Len(rel),
                     !.filter_rejection_rate = <<Len(docs) - Len(rel), Len(docs)>>]
    /\ best_result' = NoneResult
    /\ best_score' = 0
    /\ attempts' = << >>
    /\ IF HasNextAttempt(0, cfg.max_correction_attempts)
       THEN /\ attempt' = 0
            /\ generator_calls' = generator_calls + 1
            /\ pc' = "generate"
            /\ UNCHANGED <<query_metrics, result, record_query_calls, metrics_file>>
       ELSE /\ UNCHANGED <<attempt, generator_calls>>
            /\ Return(question, metrics', NoneResult)
    /\ UNCHANGED <<answer, scorer_calls>>

\* the retriever is called again after it raised
RetrieveFailsRetried(e) ==
    /\ pc = "retrieve"
    /\ retriever_calls' = retriever_calls + 1
    /\ raised' = [stage |-> "retriever", text |-> e]
    /\ UNCHANGED retriever_returns
    /\ UNCHANGED <<cfg, question, documents, verdicts, relevant_docs,
                   filterVars, loopVars, exitVars, generator_calls,
                   scorer_calls,
                   driverVars, otherVars>>

\* the retriever raises
RetrieveFails(e) ==
    /\ pc = "retrieve"
    /\ Fail(question, metrics, <<"Document retrieval failed: ">> \o e)
    /\ raised' = [stage |-> "retriever", text |-> e]
    /\ UNCHANGED retriever_returns
    /\ UNCHANGED <<cfg, question, documents, verdicts, relevant_docs,
                   filterVars, loopVars, callVars,
                   driverVars, otherVars>>

\* the passages are filtered whatever enable_guardrail says
RetrieveDoneAlwaysFilters(docs, vs) ==
    /\ pc = "retrieve"
    /\ documents' = docs
    /\ retriever_returns' = retriever_returns + 1
    /\ UNCHANGED raised
    /\ IF NoDocuments(docs)
       THEN /\ Return(question, metrics, _create_no_documents_result(question))
            /\ verdicts' = << >>
            /\ UNCHANGED <<relevant_docs, filterVars, loopVars, callVars>>
       ELSE /\ FilterCall(docs, cfg.parallel_guardrail, classifier_calls)
            /\ verdicts' = vs
            /\ pc' = "filter"
            /\ UNCHANGED <<metrics, query_metrics, result,
                           record_query_calls, metrics_file,
                           relevant_docs, loopVars, callVars>>
    /\ UNCHANGED <<cfg, question,
                   driverVars, otherVars>>

\* the retriever returns docs; vs is what the classifier will answer
RetrieveDone(docs, vs) ==
    /\ pc = "retrieve"
    /\ documents' = docs
    /\ retriever_returns' = retriever_returns + 1
    /\ UNCHANGED raised
    /\ IF NoDocuments(docs)
       THEN /\ Return(question, metrics, _create_no_documents_result(question))
            /\ verdicts' = << >>
            /\ UNCHANGED <<relevant_docs, filterVars, loopVars, callVars>>
       ELSE IF cfg.enable_guardrail
       THEN /\ FilterCall(docs, cfg.parallel_guardrail, classifier_calls)
            /\ verdicts' = vs
            /\ pc' = "filter"
            /\ UNCHANGED <<metrics, query_metrics, result,
                           record_query_calls, metrics_file,
                           relevant_docs, loopVars, callVars>>
       ELSE /\ relevant_docs' = docs
            /\ verdicts' = << >>
            /\ EnterLoop(docs, docs)
            /\ UNCHANGED <<filterVars, retriever_calls>>
    /\ UNCHANGED <<cfg, question,
                   driverVars, otherVars>>

\* the empty filter output is not checked for
NoRelevantDocsUnchecked(rel) == FALSE

NoRelevantDocs(rel) == rel = << >>

\* filter_documents returned to _execute_with_correction
FilterReturned ==
    /\ pc = "filter"
    /\ fpc = "returned"
    /\ relevant_docs' = f_relevant_docs
    /\ FilterIdle
    /\ IF NoRelevantDocs(f_relevant_docs)
       THEN /\ Return(question, metrics,
                      _create_no_relevant_context_result(question, Len(documents)))
            /\ UNCHANGED <<loopVars, callVars>>
       ELSE /\ EnterLoop(documents, f_relevant_docs)
            /\ UNCHANGED retriever_calls
    /\ UNCHANGED obsVars
    /\ UNCHANGED <<cfg, question, documents,
                   driverVars, otherVars>>

\* the generator raises
GenerateFails(e) ==
    /\ pc = "generate"
    /\ Fail(question, metrics, e)
    /\ raised' = [stage |-> "generator", text |-> e]
    /\ UNCHANGED retriever_returns
    /\ UNCHANGED <<cfg, question, documents, verdicts, relevant_docs,
                   filterVars, loopVars, callVars,
                   driverVars, otherVars>>

\* the answer is not scored: the generator is called again at once
GenerateDoneUnscored ==
    /\ pc = "generate"
    /\ answer' = AnswerText(generator_calls)
    /\ generator_calls' = generator_calls + 1
    /\ UNCHANGED <<pc, metrics, query_metrics, result, record_query_calls, metrics_file>>
    /\ UNCHANGED obsVars
    /\ UNCHANGED <<cfg, question, documents, verdicts, relevant_docs, filterVars,
                   context, attempt, best_result, best_score, attempts,
                   retriever_calls, scorer_calls,
                   driverVars, otherVars>>

\* the scorer is given an empty context
GenerateDoneDropsContext ==
    /\ pc = "generate"
    /\ answer' = AnswerText(generator_calls)
    /\ scorer_calls' = scorer_calls + 1
    /\ context' = << >>
    /\ pc' = "evaluate"
    /\ UNCHANGED <<metrics, query_metrics, result, record_query_calls, metrics_file>>
    /\ UNCHANGED obsVars
    /\ UNCHANGED <<cfg, question, documents, verdicts, relevant_docs, filterVars,
                   attempt, best_result, best_score, attempts,
                   retriever_calls, generator_calls,
                   driverVars, otherVars>>

\* the generator returns; the scorer is called
GenerateDone ==
    /\ pc = "generate"
    /\ answer' = AnswerText(generator_calls)
    /\ scorer_calls' = scorer_calls + 1
    /\ pc' = "evaluate"
    /\ UNCHANGED <<metrics, query_metrics, result, record_query_calls, metrics_file>>
    /\ UNCHANGED obsVars
    /\ UNCHANGED <<cfg, question, documents, verdicts, relevant_docs, filterVars,
                   context, attempt, best_result, best_score, attempts,
                   retriever_calls, generator_calls,
                   driverVars, otherVars>>

\* a scorer error after an evaluated attempt falls back on the best attempt
EvaluateFailsReturnsBest(e) ==
    /\ pc = "evaluate"
    /\ IF best_result = NoneResult
       THEN Fail(question, metrics, e)
       ELSE Return(question, metrics, best_result)
    /\ raised' = [stage |-> "scorer", text |-> e]
    /\ UNCHANGED retriever_returns
    /\ UNCHANGED <<cfg, question, documents, verdicts, relevant_docs,
                   filterVars, loopVars, callVars,
                   driverVars, otherVars>>

\* the scorer raises
EvaluateFails(e) ==
    /\ pc = "evaluate"
    /\ Fail(question, metrics, e)
    /\ raised' = [stage |-> "scorer", text |-> e]
    /\ UNCHANGED retriever_returns
    /\ UNCHANGED <<cfg, question, documents, verdicts, relevant_docs,
                   filterVars, loopVars, callVars,
                   driverVars, otherVars>>

\* a later attempt with an equal score replaces the best one
IsBetterOrEqual(score, best) == score >= best

\* only the first attempt is ever remembered
IsBetterFirstOnly(score, best) == best = 0

IsBetter(score, best) == score > best

\* a score equal to the threshold is not accepted
IsAboveThreshold(score, min_acceptable_score) == score > min_acceptable_score

IsAcceptable(score, min_acceptable_score) == score >= min_acceptable_score

\* attempts are numbered from zero
AttemptNumberFromZero(a) == a

AttemptNumber(a) == a + 1

\* the scorer returns score s: lines 205-249
EvaluateDone(s) ==
    /\ pc = "evaluate"
    /\ LET evaluation == [score |-> s,
                          justification |-> ScoreJustification(scorer_calls)]
           m == [metrics EXCEPT !.correction_attempts = AttemptNumber(attempt)]
           current_result ==
               [question |-> question, answer |-> answer,
                score |-> evaluation.score,
                score_justification |-> evaluation.justification,
                source_context |-> context,
                documents_retrieved |-> Len(documents),
                documents_after_filter |-> Len(relevant_docs),
                correction_attempts |-> AttemptNumber(attempt),
                success |-> TRUE, error_message |-> None]
       IN  /\ attempts' = Append(attempts,
                  [answer |-> answer, score |-> evaluation.score,
                   justification |-> evaluation.justification,
                   attempt_number |-> AttemptNumber(attempt)])
           /\ IF IsBetter(evaluation.score, best_score)
              THEN /\ best_score' = evaluation.score
                   /\ best_result' = current_result
              ELSE UNCHANGED <<best_score, best_result>>
           /\ IF IsAcceptable(evaluation.score, cfg.min_acceptable_score)
              THEN /\ Return(question, m, current_result)
                   /\ UNCHANGED <<attempt, generator_calls>>
              ELSE IF HasNextAttempt(attempt + 1, cfg.max_correction_attempts)
              THEN /\ attempt' = attempt + 1
                   /\ generator_calls' = generator_calls + 1
                   /\ metrics' = m
                   /\ pc' = "generate"
                   /\ UNCHANGED <<query_metrics, result, record_query_calls, metrics_file>>
              ELSE /\ Return(question, m, best_result')
                   /\ UNCHANGED <<attempt, generator_calls>>
    /\ UNCHANGED obsVars
    /\ UNCHANGED <<cfg, question, documents, verdicts, relevant_docs, filterVars,
                   context, answer, retriever_calls, scorer_calls,
                   driverVars, otherVars>>

\* the scoring model answered with score s, parsed into an Evaluation
ScorerAnswers(s) ==
    IF EvaluationAccepts(s) THEN EvaluateDone(s)
    ELSE EvaluateFails(ScoreErrorText)

(***************************************************************************)
(* One run() call on a freshly built pipeline.                             *)
(***************************************************************************)
Configs ==
    [max_correction_attempts : 1..MaxAttempts,
     min_acceptable_score : Scores,
     enable_guardrail : BOOLEAN,
     parallel_guardrail : BOOLEAN,
     max_context_length : {MaxContextLength},
     max_query_length : {MaxQueryLength},
     metrics_enabled : BOOLEAN]

\* nothing has run yet
Fresh ==
    /\ question = << >>
    /\ documents = << >>
    /\ verdicts = << >>
    /\ fpc = "idle"
    /\ fi = 0
    /\ inflight = {}
    /\ results = << >>
    /\ completed = << >>
    /\ f_relevant_docs = << >>
    /\ f_justifications = << >>
    /\ classifier_calls = 0
    /\ relevant_docs = << >>
    /\ context = << >>
    /\ attempt = 0
    /\ answer = << >>
    /\ best_result = NoneResult
    /\ best_score = 0
    /\ attempts = << >>
    /\ metrics = create_query_metrics(<< >>)
    /\ query_metrics = << >>
    /\ result = NoneResult
    /\ retriever_calls = 0
    /\ generator_calls = 0
    /\ scorer_calls = 0
    /\ record_query_calls = 0
    /\ metrics_file = NoFile
    /\ retriever_returns = 0
    /\ raised = NoError
    /\ par_out = << >>
    /\ seq_out = << >>
    /\ OtherIdle

Init ==
    /\ cfg \in {c \in Configs : c.enable_guardrail \/ c.parallel_guardrail}
    /\ pc = "idle"
    /\ hpc = "off"
    /\ Fresh

Next ==
    \/ \E q \in Questions : RunStart(q)
    \/ \E e \in ErrTexts : RetrieveFails(e)
    \/ \E docs \in RetrievedLists : \E vs \in [1..Len(docs) -> Outcomes] :
           RetrieveDone(docs, vs)
    \/ \E i \in 1..Len(documents) : CheckDocDone(i)
    \/ GatherDone
    \/ SeqCheckDone
    \/ FilterReturned
    \/ \E e \in ErrTexts : GenerateFails(e)
    \/ GenerateDone
    \/ \E e \in ErrTexts : EvaluateFails(e)
    \/ \E s \in RawScores : ScorerAnswers(s)

Spec == Init /\ [][Next]_vars

LiveScores == {MinScore - 1, MinScore + 1, MaxScore - 1}

\* a pending retriever, classifier, generator or scorer call returns or
\* raises, and the code between two awaits runs
Responses ==
    \/ RetrieveFails(<<"boom">>)
    \/ \E docs \in RetrievedLists : \E vs \in [1..Len(docs) -> Outcomes] :
           RetrieveDone(docs, vs)
    \/ \E i \in 1..Len(documents) : CheckDocDone(i)
    \/ GatherDone
    \/ SeqCheckDone
    \/ FilterReturned
    \/ GenerateFails(<<"boom">>)
    \/ GenerateDone
    \/ EvaluateFails(<<"boom">>)
    \/ \E s \in LiveScores : ScorerAnswers(s)

InitLive ==
    /\ cfg \in [max_correction_attempts : 1..MaxAttempts,
                 min_acceptable_score : {MinScore + 2},
                 enable_guardrail : BOOLEAN,
                 parallel_guardrail : BOOLEAN,
                 max_context_length : {MaxContextLength},
                 max_query_length : {MaxQueryLength},
                 metrics_enabled : {FALSE}]
    /\ pc = "idle"
    /\ hpc = "off"
    /\ Fresh

NextLive ==
    \/ \E q \in {<<"a">>, << >>} : RunStart(q)
    \/ Responses

\* run() with collaborators that always answer
SpecLive == InitLive /\ [][NextLive]_vars /\ WF_vars(Responses)

(***************************************************************************)
(* filter_documents called directly, with parallel=True and then with      *)
(* parallel=False, on the same passages and the same classifier answers.   *)
(***************************************************************************)
FilterOutput ==
    [relevant_docs |-> f_relevant_docs, justifications |-> f_justifications,
     classifier_calls |-> classifier_calls]

DriverCallParallel ==
    /\ hpc = "start"
    /\ FilterCall(documents, TRUE, 0)
    /\ hpc' = "parallel"
    /\ UNCHANGED otherVars
    /\ UNCHANGED obsVars
    /\ UNCHANGED <<cfg, question, documents, verdicts, relevant_docs, loopVars,
                   exitVars, callVars, par_out, seq_out>>

DriverCallSequential ==
    /\ hpc = "parallel"
    /\ fpc = "returned"
    /\ par_out' = FilterOutput
    /\ FilterCall(documents, FALSE, 0)
    /\ hpc' = "sequential"
    /\ UNCHANGED otherVars
    /\ UNCHANGED obsVars
    /\ UNCHANGED <<cfg, question, documents, verdicts, relevant_docs, loopVars,
                   exitVars, callVars, seq_out>>

DriverDone ==
    /\ hpc = "sequential"
    /\ fpc = "returned"
    /\ seq_out' = FilterOutput
    /\ hpc' = "done"
    /\ UNCHANGED otherVars
    /\ UNCHANGED obsVars
    /\ UNCHANGED <<cfg, question, documents, verdicts, relevant_docs, filterVars,
                   loopVars, exitVars, callVars, par_out>>

InitFilter ==
    /\ cfg = [max_correction_attempts |-> 1, min_acceptable_score |-> MinScore,
              enable_guardrail |-> TRUE, parallel_guardrail |-> TRUE,
              max_context_length |-> MaxContextLength,
              max_query_length |-> MaxQueryLength, metrics_enabled |-> TRUE]
    /\ pc = "driver"
    /\ hpc = "start"
    /\ question = <<"a">>
    /\ documents \in DocLists
    /\ verdicts \in [1..Len(documents) -> Outcomes]
    /\ fpc = "idle"
    /\ fi = 0
    /\ inflight = {}
    /\ results = << >>
    /\ completed = << >>
    /\ f_relevant_docs = << >>
    /\ f_justifications = << >>
    /\ classifier_calls = 0
    /\ relevant_docs = << >>
    /\ context = << >>
    /\ attempt = 0
    /\ answer = << >>
    /\ best_result = NoneResult
    /\ best_score = 0
    /\ attempts = << >>
    /\ metrics = create_query_metrics(<< >>)
    /\ query_metrics = << >>
    /\ result = NoneResult
    /\ retriever_calls = 0
    /\ generator_calls = 0
    /\ scorer_calls = 0
    /\ record_query_calls = 0
    /\ metrics_file = NoFile
    /\ retriever_returns = 0
    /\ raised = NoError
    /\ par_out = << >>
    /\ seq_out = << >>
    /\ OtherIdle

NextFilter ==
    \/ DriverCallParallel
    \/ \E i \in 1..Len(documents) : CheckDocDone(i)
    \/ GatherDone
    \/ SeqCheckDone
    \/ DriverCallSequential
    \/ DriverDone

SpecFilter == InitFilter /\ [][NextFilter]_vars

(***************************************************************************)
(* _prepare_context called directly on a passage list, and then again on   *)
(* the single passage whose text is the context it returned.               *)
(***************************************************************************)
ContextLengths == 1..(MaxContextLength + 3)

PrepareContext ==
    /\ pc = "prepare"
    /\ context' = _prepare_context(documents, cfg.max_context_length)
    /\ pc' = "prepared"
    /\ UNCHANGED <<metrics, query_metrics, result, record_query_calls, metrics_file>>
    /\ UNCHANGED <<attempt, answer, best_result, best_score, attempts>>
    /\ UNCHANGED <<cfg, question, documents, verdicts, relevant_docs,
                   filterVars, callVars, obsVars,
                   driverVars, otherVars>>

PrepareContextAgain ==
    /\ pc = "prepared"
    /\ context' = JoinAndTruncate(<<context>>, cfg.max_context_length)
    /\ pc' = "reassembled"
    /\ UNCHANGED <<metrics, query_metrics, result, record_query_calls, metrics_file>>
    /\ UNCHANGED <<attempt, answer, best_result, best_score, attempts>>
    /\ UNCHANGED <<cfg, question, documents, verdicts, relevant_docs,
                   filterVars, callVars, obsVars,
                   driverVars, otherVars>>

InitContext ==
    /\ cfg \in [max_correction_attempts : {1},
                 min_acceptable_score : {MinScore},
                 enable_guardrail : {FALSE},
                 parallel_guardrail : {FALSE},
                 max_context_length : ContextLengths,
                 max_query_length : {MaxQueryLength},
                 metrics_enabled : {TRUE}]
    /\ pc = "prepare"
    /\ hpc = "off"
    /\ question = <<"a">>
    /\ documents \in DocLists
    /\ verdicts = << >>
    /\ fpc = "idle"
    /\ fi = 0
    /\ inflight = {}
    /\ results = << >>
    /\ completed = << >>
    /\ f_relevant_docs = << >>
    /\ f_justifications = << >>
    /\ classifier_calls = 0
    /\ relevant_docs = documents
    /\ context = << >>
    /\ attempt = 0
    /\ answer = << >>
    /\ best_result = NoneResult
    /\ best_score = 0
    /\ attempts = << >>
    /\ metrics = create_query_metrics(<< >>)
    /\ query_metrics = << >>
    /\ result = NoneResult
    /\ retriever_calls = 0
    /\ generator_calls = 0
    /\ scorer_calls = 0
    /\ record_query_calls = 0
    /\ metrics_file = NoFile
    /\ retriever_returns = 0
    /\ raised = NoError
    /\ par_out = << >>
    /\ seq_out = << >>
    /\ OtherIdle

NextContext ==
    \/ PrepareContext
    \/ PrepareContextAgain

SpecContext == InitContext /\ [][NextContext]_vars

(***************************************************************************)
(* One run() call in which a collaborator may also never respond.  The     *)
(* classifier, the generator and the scorer are ChatOpenAI clients built   *)
(* with timeout=config.get('api.request_timeout'): a call of theirs that   *)
(* gets no response raises when the timeout expires.  The retriever is     *)
(* awaited as it is (rag_pipeline.py:261): a call of its that gets no      *)
(* response stays pending.                                                 *)
(***************************************************************************)
TimeoutText == <<"Request timed out.">>

\* _filter_parallel: the check of passage i times out
CheckDocTimesOut(i) ==
    /\ fpc = "parallel"
    /\ i \in inflight
    /\ inflight' = inflight \ {i}
    /\ results' = (i :> check_doc(documents[i], i, "error")) @@ results
    /\ completed' = Append(completed, i)
    /\ UNCHANGED <<fpc, fi, f_relevant_docs, f_justifications, classifier_calls>>
    /\ UNCHANGED obsVars
    /\ UNCHANGED <<cfg, question, documents, verdicts, relevant_docs,
                   loopVars, exitVars, callVars,
                   driverVars, otherVars>>

\* _filter_sequential: the check of passage fi times out; next iteration
SeqCheckTimesOut ==
    /\ fpc = "sequential"
    /\ LET doc == documents[fi]
           v == SeqVerdict(doc, "error")
       IN  IF v.keep
           THEN /\ f_relevant_docs' = Append(f_relevant_docs, doc)
                /\ f_justifications' = Append(f_justifications, v.justification)
           ELSE UNCHANGED <<f_relevant_docs, f_justifications>>
    /\ IF fi < Len(documents)
       THEN /\ fi' = fi + 1
            /\ inflight' = {fi + 1}
            /\ classifier_calls' = classifier_calls + 1
            /\ UNCHANGED fpc
       ELSE /\ fpc' = "returned"
            /\ inflight' = {}
            /\ UNCHANGED <<fi, classifier_calls>>
    /\ UNCHANGED <<results, completed>>
    /\ UNCHANGED obsVars
    /\ UNCHANGED <<cfg, question, documents, verdicts, relevant_docs,
                   loopVars, exitVars, callVars,
                   driverVars, otherVars>>

\* the generator call times out
GenerateTimesOut == GenerateFails(TimeoutText)

\* the scorer call times out
EvaluateTimesOut == EvaluateFails(TimeoutText)

\* the steps a run takes when a pending call gets no response
TimeoutSteps ==
    \/ \E i \in 1..Len(documents) : CheckDocTimesOut(i)
    \/ SeqCheckTimesOut
    \/ GenerateTimesOut
    \/ EvaluateTimesOut

NextTimeout ==
    \/ Next
    \/ TimeoutSteps

SpecTimeout == Init /\ [][NextTimeout]_vars

(***************************************************************************)
(* run() up to its retriever call, on questions over every kind of         *)
(* character.                                                              *)
(***************************************************************************)
InitValidate ==
    /\ cfg \in [max_correction_attempts : {1},
                 min_acceptable_score : {MinScore},
                 enable_guardrail : {FALSE},
                 parallel_guardrail : {FALSE},
                 max_context_length : {MaxContextLength},
                 max_query_length : {MaxRawQueryLength - 1, MaxRawQueryLength},
                 metrics_enabled : {FALSE}]
    /\ pc = "idle"
    /\ hpc = "off"
    /\ Fresh

NextValidate == \E q \in RawQuestions : RunStart(q)

SpecValidate == InitValidate /\ [][NextValidate]_vars

(***************************************************************************)
(* metrics.py: one MetricsCollector used by several threads.  history is   *)
(* the order in which the calls took effect.                               *)
(***************************************************************************)
\* the newest record survives a clear
clear_metrics_keeping_newest(list) ==
    IF list = << >> THEN << >> ELSE <<list[Len(list)]>>

\* MetricsCollector.clear_metrics: the list after the call
clear_metrics(list) == << >>

CollectorRecords ==
    {[create_query_metrics(<<"a">>) EXCEPT !.final_score = MaxScore],
     [create_query_metrics(<<"b">>) EXCEPT !.success = FALSE]}

Successful(list) == {i \in 1..Len(list) : list[i].success}
Failed(list) == {i \in 1..Len(list) : ~list[i].success}

pipelineVars ==
    <<cfg, pc, question, documents, verdicts, relevant_docs, filterVars,
      loopVars, metrics, result, callVars, obsVars, driverVars, schedVars,
      configVars, loaderVars, frontVars>>

\* the calls that have not taken effect yet
Pending == Cardinality({t \in Threads : tpc[t] \in {"record", "clear", "append", "clearing"}})

\* a record_query or clear_metrics call changes the list while
\* get_aggregate_metrics, which takes no lock, is reading it
Disturb ==
    agg' = IF apc \in {"total", "successful", "failed"}
           THEN [agg EXCEPT !.quiet = FALSE] ELSE agg

\* record_query up to the lock: a disabled collector returns at once
RecordQueryCall(t, m) ==
    /\ tpc[t] = "idle"
    /\ Len(history) + Pending < MaxCollectorCalls
    /\ record_query_calls < MaxCollectorCalls
    /\ record_query_calls' = record_query_calls + 1
    /\ IF cfg.metrics_enabled
       THEN /\ tpc' = [tpc EXCEPT ![t] = "record"]
            /\ targ' = [targ EXCEPT ![t] = m]
       ELSE UNCHANGED <<tpc, targ>>
    /\ UNCHANGED <<lock, history, apc, agg, query_metrics, metrics_file>>
    /\ UNCHANGED pipelineVars

\* clear_metrics up to the lock
ClearMetricsCall(t) ==
    /\ tpc[t] = "idle"
    /\ Len(history) + Pending < MaxCollectorCalls
    /\ tpc' = [tpc EXCEPT ![t] = "clear"]
    /\ UNCHANGED <<lock, targ, history, apc, agg, query_metrics,
                   metrics_file, record_query_calls>>
    /\ UNCHANGED pipelineVars

\* with self._lock: entered when no other thread holds it
AcquireLock(t) ==
    /\ tpc[t] \in {"record", "clear"}
    /\ lock = 0
    /\ lock' = t
    /\ tpc' = [tpc EXCEPT ![t] = IF tpc[t] = "record" THEN "append"
                                 ELSE "clearing"]
    /\ UNCHANGED <<targ, history, apc, agg, query_metrics, metrics_file,
                   record_query_calls>>
    /\ UNCHANGED pipelineVars

\* self.query_metrics.append(metrics)
AppendLocked(t) ==
    /\ tpc[t] = "append"
    /\ lock = t
    /\ query_metrics' = record_query(cfg.metrics_enabled, query_metrics, targ[t])
    /\ history' = Append(history, [op |-> "record", metrics |-> targ[t]])
    /\ tpc' = [tpc EXCEPT ![t] = "save"]
    /\ Disturb
    /\ UNCHANGED <<lock, targ, apc, metrics_file, record_query_calls>>
    /\ UNCHANGED pipelineVars

\* self._save_to_file(), then the lock is released
SaveLocked(t) ==
    /\ tpc[t] = "save"
    /\ lock = t
    /\ \E outcome \in SaveOutcomes :
           metrics_file' = _save_to_file(outcome, query_metrics, metrics_file)
    /\ lock' = 0
    /\ tpc' = [tpc EXCEPT ![t] = "idle"]
    /\ UNCHANGED <<targ, history, apc, agg, query_metrics,
                   record_query_calls>>
    /\ UNCHANGED pipelineVars

\* self.query_metrics = [], then the lock is released
ClearLocked(t) ==
    /\ tpc[t] = "clearing"
    /\ lock = t
    /\ query_metrics' = clear_metrics(query_metrics)
    /\ history' = Append(history, [op |-> "clear",
                                   metrics |-> create_query_metrics(<< >>)])
    /\ lock' = 0
    /\ tpc' = [tpc EXCEPT ![t] = "idle"]
    /\ Disturb
    /\ UNCHANGED <<targ, apc, metrics_file, record_query_calls>>
    /\ UNCHANGED pipelineVars

\* get_aggregate_metrics: if not self.query_metrics
AggregateCall ==
    /\ apc = "idle"
    /\ IF query_metrics = << >>
       THEN /\ agg' = [metrics |-> AggregateMetrics, quiet |-> TRUE,
                       recorded |-> 0]
            /\ apc' = "returned"
       ELSE /\ agg' = [metrics |-> AggregateMetrics, quiet |-> TRUE,
                       recorded |-> Len(RecordsSinceLastClear(history))]
            /\ apc' = "total"
    /\ UNCHANGED <<lock, tpc, targ, history, query_metrics, metrics_file,
                   record_query_calls>>
    /\ UNCHANGED pipelineVars

\* metrics.total_queries = len(self.query_metrics)
AggregateTotal ==
    /\ apc = "total"
    /\ agg' = [agg EXCEPT !.metrics.total_queries = Len(query_metrics)]
    /\ apc' = "successful"
    /\ UNCHANGED <<lock, tpc, targ, history, query_metrics, metrics_file,
                   record_query_calls>>
    /\ UNCHANGED pipelineVars

\* successful = [m for m in self.query_metrics if m.success]
AggregateSuccessful ==
    /\ apc = "successful"
    /\ agg' = [agg EXCEPT !.metrics.successful_queries =
                               Cardinality(Successful(query_metrics))]
    /\ apc' = "failed"
    /\ UNCHANGED <<lock, tpc, targ, history, query_metrics, metrics_file,
                   record_query_calls>>
    /\ UNCHANGED pipelineVars

\* failed = [m for m in self.query_metrics if not m.success]
AggregateFailed ==
    /\ apc = "failed"
    /\ agg' = [agg EXCEPT !.metrics.failed_queries =
                               Cardinality(Failed(query_metrics))]
    /\ apc' = "returned"
    /\ UNCHANGED <<lock, tpc, targ, history, query_metrics, metrics_file,
                   record_query_calls>>
    /\ UNCHANGED pipelineVars

\* the caller has read the aggregate
AggregateRead ==
    /\ apc = "returned"
    /\ apc' = "idle"
    /\ UNCHANGED <<lock, tpc, targ, history, agg, query_metrics,
                   metrics_file, record_query_calls>>
    /\ UNCHANGED pipelineVars

InitCollector ==
    /\ cfg \in [max_correction_attempts : {1},
                 min_acceptable_score : {MinScore},
                 enable_guardrail : {FALSE},
                 parallel_guardrail : {FALSE},
                 max_context_length : {MaxContextLength},
                 max_query_length : {MaxQueryLength},
                 metrics_enabled : BOOLEAN]
    /\ pc = "idle"
    /\ hpc = "off"
    /\ Fresh

NextCollector ==
    \/ \E t \in Threads : \E m \in CollectorRecords : RecordQueryCall(t, m)
    \/ \E t \in Threads : ClearMetricsCall(t)
    \/ \E t \in Threads : AcquireLock(t)
    \/ \E t \in Threads : AppendLocked(t)
    \/ \E t \in Threads : SaveLocked(t)
    \/ \E t \in Threads : ClearLocked(t)
    \/ AggregateCall
    \/ AggregateTotal
    \/ AggregateSuccessful
    \/ AggregateFailed
    \/ AggregateRead

SpecCollector == InitCollector /\ [][NextCollector]_vars

(***************************************************************************)
(* config_loader.py: the Config singleton.                                 *)
(***************************************************************************)
\* Config(): __new__ creates the instance on the first call only
NewConfig ==
    /\ _instance' = IF _instance = 0 THEN Cardinality(handles) + 1
                    ELSE _instance
    /\ handles' = handles \cup {_instance'}
    /\ last_op' = [NoOp EXCEPT !.op = "new"]
    /\ UNCHANGED <<_config, assigned>>
    /\ UNCHANGED <<cfg, exitVars, question, documents, verdicts, relevant_docs,
                   filterVars, loopVars, callVars, obsVars, driverVars,
                   schedVars, collectorVars, loaderVars, frontVars>>

\* config.set(key_path, value) on the instance
ConfigSet(key_path, value) ==
    /\ _instance # 0
    /\ _config' = set(_config, key_path, value)
    /\ last_op' = [op |-> "set", path |-> key_path, value |-> value,
                   raised |-> SetRaises(_config, key_path)]
    /\ assigned' = IF SetRaises(_config, key_path) THEN assigned
                   ELSE {q \in assigned : ~IsProperPrefix(key_path, q)}
                            \cup {key_path}
    /\ UNCHANGED <<_instance, handles>>
    /\ UNCHANGED <<cfg, exitVars, question, documents, verdicts, relevant_docs,
                   filterVars, loopVars, callVars, obsVars, driverVars,
                   schedVars, collectorVars, loaderVars, frontVars>>

\* config.load(path) of an existing file: _config is replaced, then
\* _validate_config raises ValueError when a required section is missing
ConfigLoad(yaml_config) ==
    /\ _instance # 0
    /\ _config' = yaml_config
    /\ last_op' = [op |-> "load", path |-> << >>, value |-> Default,
                   raised |-> \E k \in RequiredSections :
                                 yaml_config[<<k>>] = "absent"]
    /\ assigned' = {q \in KeyPaths : yaml_config[q] # "absent"}
    /\ UNCHANGED <<_instance, handles>>
    /\ UNCHANGED <<cfg, exitVars, question, documents, verdicts, relevant_docs,
                   filterVars, loopVars, callVars, obsVars, driverVars,
                   schedVars, collectorVars, loaderVars, frontVars>>

InitConfig ==
    /\ cfg \in [max_correction_attempts : {1},
                 min_acceptable_score : {MinScore},
                 enable_guardrail : {FALSE},
                 parallel_guardrail : {FALSE},
                 max_context_length : {MaxContextLength},
                 max_query_length : {MaxQueryLength},
                 metrics_enabled : {FALSE}]
    /\ pc = "idle"
    /\ hpc = "off"
    /\ Fresh

NextConfig ==
    \/ NewConfig
    \/ \E key_path \in KeyPaths : \E value \in ConfigValues :
           ConfigSet(key_path, value)
    \/ \E yaml_config \in LoadableConfigs : ConfigLoad(yaml_config)

SpecConfig == InitConfig /\ [][NextConfig]_vars

(***************************************************************************)
(* loaders/document_loader.py: DocumentLoader.load_document.               *)
(***************************************************************************)
notLoaderVars ==
    <<cfg, exitVars, question, documents, verdicts, relevant_docs,
      filterVars, loopVars, callVars, obsVars, driverVars, schedVars,
      collectorVars, configVars, frontVars>>

\* the frame of a load_document(file) call at its first statement
EnterLoadDocument(file, validate) ==
    /\ file_path' = file
    /\ validate_paths' = validate
    /\ checks' = << >>
    /\ loaded' = NoLoad
    /\ lpc' = "path"

\* DocumentLoader(validate_paths).load_document(file) is called
LoadDocument(file, validate) ==
    /\ lpc = "idle"
    /\ EnterLoadDocument(file, validate)
    /\ UNCHANGED notLoaderVars

\* if self.validate_paths and self.validator: validate_file_path, whose
\* exception is raised again as a DocumentLoaderError
ValidatePath ==
    /\ lpc = "path"
    /\ IF validate_paths
       THEN LET v == validate_file_path(file_path)
            IN  /\ checks' = Append(checks, "path")
                /\ IF v.ok
                   THEN /\ file_path' = v.value
                        /\ lpc' = "exists"
                        /\ UNCHANGED loaded
                   ELSE /\ loaded' = DocumentLoaderError("Invalid file path")
                        /\ lpc' = "raised"
                        /\ UNCHANGED file_path
       ELSE /\ lpc' = "exists"
            /\ UNCHANGED <<file_path, checks, loaded>>
    /\ UNCHANGED validate_paths
    /\ UNCHANGED notLoaderVars

\* if not os.path.exists(file_path)
CheckExists(exists) ==
    /\ lpc = "exists"
    /\ checks' = Append(checks, "exists")
    /\ IF exists
       THEN /\ lpc' = "format"
            /\ UNCHANGED loaded
       ELSE /\ loaded' = DocumentLoaderError("File not found")
            /\ lpc' = "raised"
    /\ UNCHANGED <<file_path, validate_paths>>
    /\ UNCHANGED notLoaderVars

\* if file_ext not in self.SUPPORTED_FORMATS
CheckFormat ==
    /\ lpc = "format"
    /\ checks' = Append(checks, "format")
    /\ IF Suffix(file_path) \in SUPPORTED_FORMATS
       THEN /\ lpc' = "load"
            /\ UNCHANGED loaded
       ELSE /\ loaded' = DocumentLoaderError("Unsupported file format")
            /\ lpc' = "raised"
    /\ UNCHANGED <<file_path, validate_paths>>
    /\ UNCHANGED notLoaderVars

\* _load_pdf or _load_text returns the documents, or raises and the
\* exception is raised again as a DocumentLoaderError
ParserAnswers(outcome) ==
    /\ lpc = "load"
    /\ checks' = Append(checks, "load")
    /\ IF outcome = "documents"
       THEN /\ loaded' = [kind |-> "documents", message |-> "none"]
            /\ lpc' = "returned"
       ELSE /\ loaded' = DocumentLoaderError("Error loading")
            /\ lpc' = "raised"
    /\ UNCHANGED <<file_path, validate_paths>>
    /\ UNCHANGED notLoaderVars

InitLoader ==
    /\ cfg \in [max_correction_attempts : {1},
                 min_acceptable_score : {MinScore},
                 enable_guardrail : {FALSE},
                 parallel_guardrail : {FALSE},
                 max_context_length : {MaxContextLength},
                 max_query_length : {MaxQueryLength},
                 metrics_enabled : {FALSE}]
    /\ pc = "idle"
    /\ hpc = "off"
    /\ Fresh

NextLoader ==
    \/ /\ lpc = "idle"
       /\ \E file \in FilePaths : \E validate \in BOOLEAN :
              LoadDocument(file, validate)
    \/ ValidatePath
    \/ \E exists \in BOOLEAN : CheckExists(exists)
    \/ CheckFormat
    \/ \E outcome \in {"documents", "error"} : ParserAnswers(outcome)

SpecLoader == InitLoader /\ [][NextLoader]_vars

(***************************************************************************)
(* loaders/document_loader.py: load_documents on a list of paths.  loads   *)
(* records, file by file, whether load_document returned and how many      *)
(* Documents the parser gave.                                              *)
(***************************************************************************)
MaxBatchFiles == 2
MaxPages == 2

BatchPaths == {<<"d", ".", "PDF">>, <<"d", ".", "txt">>, <<"/", "d">>}
BatchPathLists == StringsUpTo(BatchPaths, MaxBatchFiles)

\* how many Documents the parser returns: _load_text one for the file,
\* _load_pdf one per page
PageCounts(file) ==
    IF Suffix(file) = <<".", "pdf">> THEN 0..MaxPages ELSE {1}

Pages(file, n) == [k \in 1..n |-> [source |-> file, page |-> k]]

notBatchVars ==
    <<cfg, exitVars, question, documents, verdicts, relevant_docs,
      filterVars, loopVars, callVars, obsVars, driverVars, schedVars,
      collectorVars, configVars, webVars>>

\* DocumentLoader(validate).load_documents(paths) up to the first
\* load_document call
LoadDocuments(paths, validate) ==
    /\ bpc = "idle"
    /\ lpc = "idle"
    /\ file_paths' = paths
    /\ all_documents' = << >>
    /\ errors' = << >>
    /\ loads' = << >>
    /\ IF paths = << >>
       THEN /\ bpc' = "raised"
            /\ batch_raised' = "No file paths provided"
            /\ bi' = 0
            /\ validate_paths' = validate
            /\ UNCHANGED <<lpc, file_path, checks, loaded>>
       ELSE /\ bpc' = "loop"
            /\ batch_raised' = "none"
            /\ bi' = 1
            /\ EnterLoadDocument(paths[1], validate)
    /\ UNCHANGED notBatchVars

\* the first file that fails ends the call
AfterLoadDocumentStopsAtError(n) ==
    /\ bpc = "loop"
    /\ lpc \in {"returned", "raised"}
    /\ n \in (IF lpc = "returned" THEN PageCounts(file_path) ELSE {0})
    /\ all_documents' = all_documents \o Pages(file_path, n)
    /\ errors' = IF lpc = "raised"
                 THEN Append(errors, <<file_paths[bi], loaded.message>>)
                 ELSE errors
    /\ loads' = Append(loads, [ok |-> (lpc = "returned"), pages |-> n])
    /\ IF lpc = "raised"
       THEN /\ bpc' = "raised"
            /\ batch_raised' = "Failed to load any documents"
            /\ UNCHANGED <<bi, loaderVars>>
       ELSE IF bi < Len(file_paths)
       THEN /\ bi' = bi + 1
            /\ EnterLoadDocument(file_paths[bi + 1], validate_paths)
            /\ UNCHANGED <<bpc, batch_raised>>
       ELSE /\ bpc' = "returned"
            /\ UNCHANGED <<bi, batch_raised, loaderVars>>
    /\ UNCHANGED file_paths
    /\ UNCHANGED notBatchVars

\* load_document returned n Documents or raised DocumentLoaderError: the
\* rest of the loop body, then the next load_document call or the end of
\* load_documents
AfterLoadDocument(n) ==
    /\ bpc = "loop"
    /\ lpc \in {"returned", "raised"}
    /\ n \in (IF lpc = "returned" THEN PageCounts(file_path) ELSE {0})
    /\ all_documents' = all_documents \o Pages(file_path, n)
    /\ errors' = IF lpc = "raised"
                 THEN Append(errors, <<file_paths[bi], loaded.message>>)
                 ELSE errors
    /\ loads' = Append(loads, [ok |-> (lpc = "returned"), pages |-> n])
    /\ IF bi < Len(file_paths)
       THEN /\ bi' = bi + 1
            /\ EnterLoadDocument(file_paths[bi + 1], validate_paths)
            /\ UNCHANGED <<bpc, batch_raised>>
       ELSE /\ IF all_documents' = << >> /\ errors' # << >>
               THEN /\ bpc' = "raised"
                    /\ batch_raised' = "Failed to load any documents"
               ELSE /\ bpc' = "returned"
                    /\ UNCHANGED batch_raised
            /\ UNCHANGED <<bi, loaderVars>>
    /\ UNCHANGED file_paths
    /\ UNCHANGED notBatchVars

InitBatch == InitLoader

NextBatch ==
    \/ /\ bpc = "idle"
       /\ \E paths \in BatchPathLists : \E validate \in BOOLEAN :
              LoadDocuments(paths, validate)
    \/ ValidatePath
    \/ \E exists \in BOOLEAN : CheckExists(exists)
    \/ CheckFormat
    \/ \E outcome \in {"documents", "error"} : ParserAnswers(outcome)
    \/ \E n \in 0..MaxPages : AfterLoadDocument(n)

SpecBatch == InitBatch /\ [][NextBatch]_vars

(***************************************************************************)
(* app.py: the handlers of the web front end on the module globals         *)
(* vector_store_manager, rag_pipeline and current_kb_name.  An object is   *)
(* the number of the call that built it; chat_history is the chatbot       *)
(* component's list, run_calls counts the rag_pipeline.run calls and       *)
(* web_log lists the handler calls with what they returned.                *)
(***************************************************************************)
MaxWebCalls == 4

UploadedFiles == {<< >>, <<"f">>}
KbNames == {<< >>, <<"kb">>}
Messages == {<< >>, <<" ">>, <<"q">>}

\* what the collaborators of create_knowledge_base do: load_documents
\* raises or returns a list, create_vector_store and the pipeline
\* constructor raise or return
CreateOutcomes ==
    {"load_raises", "no_documents", "store_raises", "pipeline_raises", "ok"}

DefaultKbName == <<"kb_<timestamp>">>

NoKnowledgeBaseReply == <<"Please create a knowledge base first">>

\* what rag_pipeline.run(message) gives the handler
WebResults(message) ==
    {_create_no_documents_result(message),
     [_create_no_documents_result(message) EXCEPT
          !.answer = <<"answer">>, !.score = MaxScore,
          !.documents_retrieved = 1, !.documents_after_filter = 1,
          !.correction_attempts = 1, !.success = TRUE,
          !.error_message = None]}

\* the response text of chat_with_documents
Response(r, kb_name) ==
    [answer |-> r.answer, score |-> r.score,
     documents_retrieved |-> r.documents_retrieved,
     documents_after_filter |-> r.documents_after_filter,
     correction_attempts |-> r.correction_attempts,
     knowledge_base |-> IF kb_name = None THEN <<"Unnamed">> ELSE kb_name]

notWebVars ==
    <<cfg, exitVars, question, documents, verdicts, relevant_docs,
      filterVars, loopVars, callVars, obsVars, driverVars, schedVars,
      collectorVars, configVars, loaderVars, batchVars>>

\* create_knowledge_base(files, kb_name)
create_knowledge_base(files, kb_name, outcome) ==
    /\ Len(web_log) < MaxWebCalls
    /\ LET name == IF kb_name = << >> THEN DefaultKbName ELSE kb_name
           call == Len(web_log) + 1
       IN  IF files = << >> \/ outcome \in {"load_raises", "no_documents"}
           THEN /\ web_log' = Append(web_log, [op |-> "create", ok |-> FALSE])
                /\ UNCHANGED <<vector_store_manager, rag_pipeline,
                               current_kb_name>>
           ELSE IF outcome \in {"store_raises", "pipeline_raises"}
           THEN /\ vector_store_manager' = call
                /\ web_log' = Append(web_log, [op |-> "create", ok |-> FALSE])
                /\ UNCHANGED <<rag_pipeline, current_kb_name>>
           ELSE /\ vector_store_manager' = call
                /\ rag_pipeline' = call
                /\ current_kb_name' = name
                /\ web_log' = Append(web_log, [op |-> "create", ok |-> TRUE])
    /\ UNCHANGED <<chat_history, run_calls>>
    /\ UNCHANGED notWebVars

\* the pipeline stays in place
clear_knowledge_base_keeping_pipeline ==
    /\ Len(web_log) < MaxWebCalls
    /\ vector_store_manager' = 0
    /\ current_kb_name' = None
    /\ web_log' = Append(web_log, [op |-> "clear", ok |-> TRUE])
    /\ UNCHANGED <<rag_pipeline, chat_history, run_calls>>
    /\ UNCHANGED notWebVars

\* clear_knowledge_base()
clear_knowledge_base ==
    /\ Len(web_log) < MaxWebCalls
    /\ vector_store_manager' = 0
    /\ rag_pipeline' = 0
    /\ current_kb_name' = None
    /\ web_log' = Append(web_log, [op |-> "clear", ok |-> TRUE])
    /\ UNCHANGED <<chat_history, run_calls>>
    /\ UNCHANGED notWebVars

\* chat_with_documents(message, chat_history) without a pipeline, or with
\* a blank message
ChatWithoutRun(message) ==
    /\ Len(web_log) < MaxWebCalls
    /\ IF rag_pipeline = 0
       THEN chat_history' = Append(chat_history,
                [user |-> message, assistant |-> NoKnowledgeBaseReply])
       ELSE /\ strip(message) = << >>
            /\ UNCHANGED chat_history
    /\ web_log' = Append(web_log, [op |-> "chat", ok |-> FALSE])
    /\ UNCHANGED <<vector_store_manager, rag_pipeline, current_kb_name,
                   run_calls>>
    /\ UNCHANGED notWebVars

\* chat_with_documents(message, chat_history): rag_pipeline.run(message)
\* returns r
ChatWithRun(message, r) ==
    /\ Len(web_log) < MaxWebCalls
    /\ rag_pipeline # 0
    /\ strip(message) # << >>
    /\ run_calls' = run_calls + 1
    /\ chat_history' = chat_history \o
           <<[role |-> "user", content |-> message],
             [role |-> "assistant",
              content |-> Response(r, current_kb_name)]>>
    /\ web_log' = Append(web_log, [op |-> "chat", ok |-> TRUE])
    /\ UNCHANGED <<vector_store_manager, rag_pipeline, current_kb_name>>
    /\ UNCHANGED notWebVars

\* chat_with_documents(message, chat_history): rag_pipeline.run(message)
\* raises e, the except branch answers
ChatRunRaises(message, e) ==
    /\ Len(web_log) < MaxWebCalls
    /\ rag_pipeline # 0
    /\ strip(message) # << >>
    /\ run_calls' = run_calls + 1
    /\ chat_history' = chat_history \o
           <<[role |-> "user", content |-> message],
             [role |-> "assistant", content |-> <<"Error: ">> \o e]>>
    /\ web_log' = Append(web_log, [op |-> "chat", ok |-> FALSE])
    /\ UNCHANGED <<vector_store_manager, rag_pipeline, current_kb_name>>
    /\ UNCHANGED notWebVars

InitWeb == InitLoader

NextWeb ==
    \/ \E files \in UploadedFiles : \E kb_name \in KbNames :
           \E outcome \in CreateOutcomes :
               create_knowledge_base(files, kb_name, outcome)
    \/ clear_knowledge_base
    \/ \E message \in Messages : ChatWithoutRun(message)
    \/ \E message \in Messages : \E r \in WebResults(message) :
           ChatWithRun(message, r)
    \/ \E message \in Messages : ChatRunRaises(message, <<"boom">>)

SpecWeb == InitWeb /\ [][NextWeb]_vars

(***************************************************************************)
(* Two run() calls on one pipeline, interleaved at their awaits.           *)
(***************************************************************************)
\* the attempt counter and the best attempt are kept on the pipeline
SwitchSharingLoopState ==
    /\ parked' = CurrentFrame
    /\ current' = 3 - current
    /\ pc' = parked.pc
    /\ question' = parked.question
    /\ documents' = parked.documents
    /\ verdicts' = parked.verdicts
    /\ fpc' = parked.fpc
    /\ fi' = parked.fi
    /\ inflight' = parked.inflight
    /\ results' = parked.results
    /\ completed' = parked.completed
    /\ f_relevant_docs' = parked.f_relevant_docs
    /\ f_justifications' = parked.f_justifications
    /\ classifier_calls' = parked.classifier_calls
    /\ relevant_docs' = parked.relevant_docs
    /\ context' = parked.context
    /\ answer' = parked.answer
    /\ attempts' = parked.attempts
    /\ metrics' = parked.metrics
    /\ result' = parked.result
    /\ retriever_calls' = parked.retriever_calls
    /\ generator_calls' = parked.generator_calls
    /\ scorer_calls' = parked.scorer_calls
    /\ retriever_returns' = parked.retriever_returns
    /\ raised' = parked.raised
    /\ UNCHANGED <<attempt, best_result, best_score>>
    /\ UNCHANGED <<cfg, query_metrics, record_query_calls, metrics_file,
                   driverVars, collectorVars, configVars, loaderVars,
                   frontVars>>

\* the event loop suspends the running call at its await and resumes the
\* other one
Switch ==
    /\ parked' = CurrentFrame
    /\ current' = 3 - current
    /\ pc' = parked.pc
    /\ question' = parked.question
    /\ documents' = parked.documents
    /\ verdicts' = parked.verdicts
    /\ fpc' = parked.fpc
    /\ fi' = parked.fi
    /\ inflight' = parked.inflight
    /\ results' = parked.results
    /\ completed' = parked.completed
    /\ f_relevant_docs' = parked.f_relevant_docs
    /\ f_justifications' = parked.f_justifications
    /\ classifier_calls' = parked.classifier_calls
    /\ relevant_docs' = parked.relevant_docs
    /\ context' = parked.context
    /\ attempt' = parked.attempt
    /\ answer' = parked.answer
    /\ best_result' = parked.best_result
    /\ best_score' = parked.best_score
    /\ attempts' = parked.attempts
    /\ metrics' = parked.metrics
    /\ result' = parked.result
    /\ retriever_calls' = parked.retriever_calls
    /\ generator_calls' = parked.generator_calls
    /\ scorer_calls' = parked.scorer_calls
    /\ retriever_returns' = parked.retriever_returns
    /\ raised' = parked.raised
    /\ UNCHANGED <<cfg, query_metrics, record_query_calls, metrics_file,
                   driverVars, collectorVars, configVars, loaderVars,
                   frontVars>>

\* the question of each call
CallQuestions(c) == IF c = 1 THEN {<<"a">>} ELSE {<<"a", "a">>, << >>}

\* the retriever returns nothing, one passage or two
ConcurrentLists == {docs \in RetrievedLists : Len(docs) <= 2}

ConcurrentScores == {MinScore - 1, MinScore + 1, MaxScore - 1}

InitConcurrent ==
    /\ cfg \in [max_correction_attempts : {2},
                 min_acceptable_score : {MinScore + 2},
                 enable_guardrail : BOOLEAN,
                 parallel_guardrail : {TRUE},
                 max_context_length : {MaxContextLength},
                 max_query_length : {MaxQueryLength},
                 metrics_enabled : BOOLEAN]
    /\ pc = "idle"
    /\ hpc = "off"
    /\ Fresh

NextConcurrent ==
    \/ Switch
    \/ \E q \in CallQuestions(current) : RunStart(q)
    \/ RetrieveFails(<<"boom">>)
    \/ \E docs \in ConcurrentLists : \E vs \in [1..Len(docs) -> Outcomes] :
           RetrieveDone(docs, vs)
    \/ \E i \in 1..Len(documents) : CheckDocDone(i)
    \/ GatherDone
    \/ SeqCheckDone
    \/ FilterReturned
    \/ GenerateFails(<<"boom">>)
    \/ GenerateDone
    \/ EvaluateFails(<<"boom">>)
    \/ \E s \in ConcurrentScores : ScorerAnswers(s)

SpecConcurrent == InitConcurrent /\ [][NextConcurrent]_vars

(***************************************************************************)
(* Properties.                                                             *)
(***************************************************************************)
IsSuffix(t, s) ==
    /\ Len(t) <= Len(s)
    /\ SubSeq(s, Len(s) - Len(t) + 1, Len(s)) = t

AttemptIndices == 1..Len(attempts)

AllBelowThreshold ==
    \A k \in AttemptIndices : attempts[k].score < cfg.min_acceptable_score

\* the loop ran max_correction_attempts iterations and accepted none
Exhausted ==
    /\ pc = "done"
    /\ Len(attempts) = cfg.max_correction_attempts
    /\ AllBelowThreshold

IsEarliestMax(j) ==
    \A k \in AttemptIndices :
        /\ attempts[k].score <= attempts[j].score
        /\ k < j => attempts[k].score < attempts[j].score

\* C1: when max_correction_attempts attempts were all scored below
\* min_acceptable_score, the returned result carries the answer, score and
\* justification of the attempt with the maximum score, the earliest one
\* among those sharing that maximum.
C1_ExhaustionReturnsBest ==
    Exhausted =>
        \E j \in AttemptIndices :
            /\ IsEarliestMax(j)
            /\ result.success
            /\ result.answer = attempts[j].answer
            /\ result.score = attempts[j].score
            /\ result.score_justification = attempts[j].justification

\* three attempts, the first two tie for the maximum, the third is lower,
\* and the first is returned
C1_Witness ==
    /\ Exhausted
    /\ Len(attempts) = 3
    /\ attempts[1].score = attempts[2].score
    /\ attempts[3].score < attempts[1].score
    /\ result.answer = attempts[1].answer

\* C2: an attempt whose score is >= min_acceptable_score is the last one of
\* its run: the run is over, that attempt is the result, and exactly as many
\* generator and scorer calls were made as its attempt number.
C2_EarlyAccept ==
    \A k \in AttemptIndices :
        attempts[k].score >= cfg.min_acceptable_score =>
            /\ k = Len(attempts)
            /\ pc = "done"
            /\ generator_calls = k
            /\ scorer_calls = k
            /\ result.success
            /\ result.answer = attempts[k].answer
            /\ result.score = attempts[k].score
            /\ result.score_justification = attempts[k].justification
            /\ result.correction_attempts = k

\* scores [2, 4] with threshold 3 and room for a third attempt
C2_Witness ==
    /\ pc = "done"
    /\ cfg.min_acceptable_score = 3
    /\ cfg.max_correction_attempts = 3
    /\ Len(attempts) = 2
    /\ attempts[1].score = 2
    /\ attempts[2].score = 4
    /\ generator_calls = 2
    /\ result.answer = attempts[2].answer

\* C3: the k-th attempt of a run has attempt number k, the attempt under way
\* is numbered one more than the attempts evaluated, and the generator calls
\* made never exceed max_correction_attempts.
C3_AttemptCounter ==
    /\ \A k \in AttemptIndices : attempts[k].attempt_number = k
    /\ generator_calls <= cfg.max_correction_attempts
    /\ pc \in {"generate", "evaluate"} =>
           /\ AttemptNumber(attempt) = Len(attempts) + 1
           /\ generator_calls = AttemptNumber(attempt)

\* the last attempt allowed has been evaluated
C3_Witness ==
    /\ cfg.max_correction_attempts = 3
    /\ Len(attempts) = 3
    /\ generator_calls = 3
    /\ attempts[3].attempt_number = 3

EmptyRetrieval == retriever_returns = 1 /\ documents = << >>

\* C4: when the retriever returned zero passages the run is over with a
\* result of success=false, score 0 and all counts 0, and no classifier,
\* generator or scorer call was made.
C4_EmptyRetrieval ==
    EmptyRetrieval =>
        /\ pc = "done"
        /\ result.success = FALSE
        /\ result.score = 0
        /\ result.correction_attempts = 0
        /\ result.documents_retrieved = 0
        /\ result.documents_after_filter = 0
        /\ classifier_calls = 0
        /\ generator_calls = 0
        /\ scorer_calls = 0

\* an empty retrieval with the guardrail enabled
C4_Witness ==
    /\ EmptyRetrieval
    /\ pc = "done"
    /\ cfg.enable_guardrail
    /\ result.success = FALSE

AllIrrelevant ==
    /\ documents # << >>
    /\ Len(verdicts) = Len(documents)
    /\ \A i \in 1..Len(documents) : verdicts[i] = "irrelevant"

\* C5: when the filter returns after every one of the n >= 1 passages was
\* classified irrelevant, run() ends at once with documents_retrieved = n,
\* documents_after_filter = 0, success=false, score 0, correction_attempts 0
\* and a justification other than the empty-retrieval one, and no generator
\* or scorer call is made.
C5_AllFilteredOut ==
    [][(pc = "filter" /\ fpc = "returned" /\ AllIrrelevant) =>
          /\ pc' = "done"
          /\ result'.success = FALSE
          /\ result'.score = 0
          /\ result'.correction_attempts = 0
          /\ result'.documents_retrieved = Len(documents)
          /\ result'.documents_after_filter = 0
          /\ result'.score_justification #
                 _create_no_documents_result(question).score_justification
          /\ generator_calls' = 0
          /\ scorer_calls' = 0]_vars

\* two passages retrieved, both checked and dropped, the run over
C5_Witness ==
    /\ pc = "done"
    /\ cfg.enable_guardrail
    /\ Len(documents) = 2
    /\ classifier_calls = 2
    /\ result.documents_retrieved = 2
    /\ result.documents_after_filter = 0
    /\ result.error_message = <<"No relevant documents after filtering">>
    /\ generator_calls = 0

\* C6: record_query is called exactly once per run(), with the run's
\* QueryMetrics, in the step that ends the run: before the run is over
\* nothing is recorded, afterwards an enabled collector holds exactly that
\* one record.
C6_OneMetricsRecord ==
    IF pc = "done"
    THEN /\ record_query_calls = 1
         /\ query_metrics = IF cfg.metrics_enabled THEN <<metrics>> ELSE << >>
    ELSE /\ record_query_calls = 0
         /\ query_metrics = << >>

\* a run that failed in the scorer after one low-scoring attempt, recorded
C6_Witness ==
    /\ pc = "done"
    /\ cfg.metrics_enabled
    /\ raised.stage = "scorer"
    /\ Len(attempts) = 1
    /\ Len(query_metrics) = 1
    /\ query_metrics[1].success = FALSE

\* the result's error_message is the text of the error that reached run()
ErrorCarried ==
    result.error_message =
        IF raised.stage = "retriever"
        THEN <<"Document retrieval failed: ">> \o raised.text
        ELSE raised.text

\* C7 (as amended): whenever validation, the retriever, the generator or the
\* scorer raises, run() ends with a result of success=false, score 0,
\* correction_attempts 0 and an error_message equal to the error's text
\* (prefixed for the retriever), which is non-empty whenever that text is.
C7_ErrorResult ==
    raised # NoError =>
        /\ pc = "done"
        /\ result # NoneResult
        /\ result.success = FALSE
        /\ ErrorCarried
        /\ raised.text # << >> => result.error_message \notin {<< >>, None}
        /\ result.score = 0
        /\ result.correction_attempts = 0

\* the scorer raised in the second attempt
C7_Witness ==
    /\ raised.stage = "scorer"
    /\ raised.text # << >>
    /\ Len(attempts) = 1
    /\ pc = "done"
    /\ result.success = FALSE

\* C7 (as claimed): the error_message of the result is always non-empty.
C7_NonEmptyErrorMessage ==
    raised # NoError =>
        /\ pc = "done"
        /\ result # NoneResult
        /\ result.success = FALSE
        /\ result.error_message \notin {<< >>, None}
        /\ IsSuffix(raised.text, result.error_message)
        /\ result.score = 0
        /\ result.correction_attempts = 0

\* the question as passed to run()
RawQuestion == metrics.question

\* C8: a question that is empty after trimming whitespace, or longer than
\* max_query_length, is rejected with a validation error and the retriever
\* is never called.
C8_ValidationFailsFast ==
    (/\ pc # "idle"
     /\ \/ strip(RawQuestion) = << >>
        \/ Len(RawQuestion) > cfg.max_query_length) =>
        /\ pc = "done"
        /\ raised.stage = "validation"
        /\ result.success = FALSE
        /\ retriever_calls = 0

PositionIn(s, d) == CHOOSE i \in 1..Len(s) : s[i] = d

\* C9: whatever the order in which the parallel checks complete,
\* filter_documents(parallel=True) returns passages of the input, any two
\* of them in the order they have in the input.
C9_ParallelOrderPreserved ==
    (hpc = "parallel" /\ fpc = "returned") =>
        /\ \A a \in 1..Len(f_relevant_docs) :
               \E i \in 1..Len(documents) : documents[i] = f_relevant_docs[a]
        /\ \A a, b \in 1..Len(f_relevant_docs) :
               a < b => PositionIn(documents, f_relevant_docs[a])
                            < PositionIn(documents, f_relevant_docs[b])

\* three passages kept, their checks completed in reverse order
C9_Witness ==
    /\ hpc = "parallel"
    /\ fpc = "returned"
    /\ completed = <<3, 2, 1>>
    /\ Len(f_relevant_docs) = 3
    /\ documents[1] > documents[2]

\* C10: on the same passages and the same classifier outcomes,
\* filter_documents returns the same relevant passages and the same
\* justifications with parallel=True as with parallel=False.
C10_ParallelEqualsSequential ==
    hpc = "done" =>
        /\ par_out.relevant_docs = seq_out.relevant_docs
        /\ par_out.justifications = seq_out.justifications

\* three passages, one relevant, one irrelevant, one whose check raised
C10_Witness ==
    /\ hpc = "done"
    /\ Len(documents) = 3
    /\ {verdicts[i] : i \in 1..3} = Outcomes
    /\ Len(par_out.relevant_docs) = 2
    /\ Len(seq_out.justifications) = 2

\* the positions of the passages that filter_documents is to keep, in input
\* order: those the classifier did not call irrelevant
RECURSIVE KeptPositions(_, _)
KeptPositions(vs, n) ==
    IF n = 0 THEN << >>
    ELSE IF vs[n] = "irrelevant" THEN KeptPositions(vs, n - 1)
    ELSE Append(KeptPositions(vs, n - 1), n)

\* out holds, in input order, exactly the passages not classified
\* irrelevant; the entry of a passage whose check raised records the error
FailOpenOutput(out) ==
    LET kept == KeptPositions(verdicts, Len(documents))
    IN  /\ out.relevant_docs = [k \in 1..Len(kept) |-> documents[kept[k]]]
        /\ Len(out.justifications) = Len(kept)
        /\ \A k \in 1..Len(kept) :
               out.justifications[k] =
                   IF verdicts[kept[k]] = "error"
                   THEN <<"Error during check: ">>
                            \o ClassifierErrorText(documents[kept[k]])
                   ELSE ClassifierJustification(documents[kept[k]])

\* C11: in parallel and in sequential mode, every passage whose classifier
\* call raised is in the relevant-passage output at its original position
\* among the kept passages, its justification entry is the error text, and
\* every other passage is kept or dropped by its own verdict alone.
C11_FailOpen ==
    hpc = "done" => FailOpenOutput(par_out) /\ FailOpenOutput(seq_out)

\* an irrelevant passage, then one whose check raised, then a relevant one
C11_Witness ==
    /\ hpc = "done"
    /\ verdicts = <<"irrelevant", "error", "relevant">>
    /\ par_out.relevant_docs = <<documents[2], documents[3]>>
    /\ seq_out.relevant_docs = <<documents[2], documents[3]>>
    /\ par_out.justifications[1] = ErrorJustification(documents[2])

\* the passages whose check has completed in the call under way
Checked ==
    IF fpc = "parallel" THEN {completed[k] : k \in 1..Len(completed)}
    ELSE IF fpc = "sequential" THEN 1..(fi - 1)
    ELSE 1..Len(documents)

\* C12: in both modes a filter_documents call issues one classifier call
\* per passage: a passage is either under check or checked, never both, no
\* check completes twice, the calls issued are the passages checked or
\* under check, and when the call returns there were as many calls as
\* passages; for the empty list it returns ([], []) with no call at all.
C12_OneCallPerPassage ==
    /\ fpc \in {"parallel", "sequential", "returned"} =>
           /\ Checked \cap inflight = {}
           /\ Checked \cup inflight \subseteq 1..Len(documents)
           /\ classifier_calls = Cardinality(Checked \cup inflight)
           /\ IsInjective(completed)
    /\ fpc = "returned" => classifier_calls = Len(documents)
    /\ (fpc = "returned" /\ documents = << >>) =>
           /\ f_relevant_docs = << >>
           /\ f_justifications = << >>
           /\ classifier_calls = 0
    /\ hpc = "done" =>
           /\ par_out.classifier_calls = Len(documents)
           /\ seq_out.classifier_calls = Len(documents)

\* three passages, every check raised, three calls in either mode
C12_Witness ==
    /\ hpc = "done"
    /\ Len(documents) = 3
    /\ \A i \in 1..3 : verdicts[i] = "error"
    /\ par_out.classifier_calls = 3
    /\ seq_out.classifier_calls = 3
    /\ Len(seq_out.relevant_docs) = 3

\* the generator or the scorer raised in this run
LoopCallRaised == raised.stage \in {"generator", "scorer"}

\* C13: once a generator or scorer call has raised, in whichever iteration,
\* the run is over with success=false and a result that is none of the
\* attempts evaluated before, and the calls made are those up to the
\* failing one: one generator call per evaluated attempt plus the failing
\* attempt's, and a scorer call in the failing attempt only if it was the
\* scorer that raised.
C13_LoopFailureNotRetried ==
    LoopCallRaised =>
        /\ pc = "done"
        /\ result.success = FALSE
        /\ result.score = 0
        /\ \A k \in AttemptIndices : result.answer # attempts[k].answer
        /\ generator_calls = Len(attempts) + 1
        /\ scorer_calls =
               Len(attempts) + (IF raised.stage = "scorer" THEN 1 ELSE 0)

\* the generator raised in the third iteration, after two low scores
C13_Witness ==
    /\ raised.stage = "generator"
    /\ Len(attempts) = 2
    /\ AllBelowThreshold
    /\ best_score > 0
    /\ generator_calls = 3
    /\ scorer_calls = 2
    /\ pc = "done"
    /\ result.success = FALSE

\* t occurs in s
Contains(s, t) ==
    \E i \in 0..(Len(s) - Len(t)) : SubSeq(s, i + 1, i + Len(t)) = t

\* C14: once the retriever has raised, it was called exactly once, no
\* classifier, generator or scorer call was made, and the run is over with
\* success=false and an error_message containing the retriever's error
\* text.
C14_RetrievalFailureNotRetried ==
    raised.stage = "retriever" =>
        /\ retriever_calls = 1
        /\ retriever_returns = 0
        /\ classifier_calls = 0
        /\ generator_calls = 0
        /\ scorer_calls = 0
        /\ pc = "done"
        /\ result.success = FALSE
        /\ Contains(result.error_message, raised.text)

\* the retriever raised "boom" with the guardrail enabled
C14_Witness ==
    /\ raised = [stage |-> "retriever", text |-> <<"boom">>]
    /\ cfg.enable_guardrail
    /\ retriever_calls = 1
    /\ pc = "done"
    /\ result.error_message = <<"Document retrieval failed: ", "boom">>

SomeCheckRaises == \E i \in 1..Len(verdicts) : verdicts[i] = "error"

AllChecksRaise ==
    /\ documents # << >>
    /\ Len(verdicts) = Len(documents)
    /\ \A i \in 1..Len(documents) : verdicts[i] = "error"

\* C15: with the guardrail enabled, no step of the filter of a run in
\* which some classifier call raises sets an error or ends the run; when
\* the filter returns after every call raised, the run goes on to the
\* generator with every retrieved passage kept and assembled into the
\* context; the passages and the context then stay as they are, and a
\* successful result of the run reports their counts, so that
\* documents_after_filter equals documents_retrieved.
C15_ClassifierFailuresAbsorbed ==
    [][/\ (pc = "filter" /\ SomeCheckRaises) =>
              /\ raised' = NoError
              /\ pc' \in {"filter", "generate"}
       /\ (pc = "filter" /\ fpc = "returned" /\ AllChecksRaise) =>
              /\ pc' = "generate"
              /\ generator_calls' = 1
              /\ relevant_docs' = documents
              /\ context' = _prepare_context(documents, cfg.max_context_length)
              /\ metrics'.documents_retrieved = Len(documents)
              /\ metrics'.documents_after_filter = Len(documents)
       /\ pc \in {"generate", "evaluate"} =>
              /\ UNCHANGED <<documents, relevant_docs, context>>
              /\ (pc' = "done" /\ result'.success) =>
                     /\ result'.documents_retrieved = Len(documents)
                     /\ result'.documents_after_filter = Len(relevant_docs)
                     /\ result'.source_context = context]_vars

\* two passages checked in parallel, both checks raised, both kept
C15_Witness ==
    /\ pc = "filter"
    /\ fpc = "returned"
    /\ cfg.parallel_guardrail
    /\ Len(documents) = 2
    /\ AllChecksRaise
    /\ f_relevant_docs = documents
    /\ f_justifications[2] = ErrorJustification(documents[2])
    /\ raised = NoError

\* the passage texts joined by the separator
JoinedText ==
    Join(Separator, [i \in 1..Len(documents) |-> page_content(documents[i])])

\* C16: the context _prepare_context returns is the joined passage texts
\* when they are at most max_context_length long, and otherwise their
\* first max_context_length characters followed by the truncation marker;
\* it is never longer than max_context_length plus the marker.
C16_ContextTruncation ==
    pc = "prepared" =>
        /\ Len(JoinedText) <= cfg.max_context_length => context = JoinedText
        /\ Len(JoinedText) > cfg.max_context_length =>
               /\ SubSeq(context, 1, cfg.max_context_length)
                      = SubSeq(JoinedText, 1, cfg.max_context_length)
               /\ SubSeq(context, cfg.max_context_length + 1, Len(context))
                      = TruncationMarker
        /\ Len(context) <= cfg.max_context_length + Len(TruncationMarker)

\* two passages whose joined text is exactly as long as the bound
C16_Witness ==
    /\ pc = "prepared"
    /\ Len(documents) = 2
    /\ Len(JoinedText) = cfg.max_context_length
    /\ context = JoinedText

\* C17: assembling the single passage whose text is a context returned by
\* _prepare_context, with the same bound, returns that context unchanged.
C17_TruncationIdempotent ==
    [][(pc = "prepared" /\ pc' = "reassembled") => context' = context]_vars

\* a truncated context, assembled again
C17_Witness ==
    /\ pc = "reassembled"
    /\ Len(JoinedText) > cfg.max_context_length
    /\ Len(context) = cfg.max_context_length + Len(TruncationMarker)
    /\ IsSuffix(TruncationMarker, context)

\* the calls of a run in the order of its stages
StagesInOrder ==
    /\ retriever_calls <= 1
    /\ retriever_returns <= retriever_calls
    /\ pc = "retrieve" <=> retriever_calls = 1 /\ retriever_returns = 0
                              /\ raised = NoError
    /\ classifier_calls > 0 => retriever_returns = 1
    /\ pc = "filter" <=> fpc # "idle"
    /\ inflight # {} => pc = "filter"
    /\ generator_calls > 0 =>
           /\ retriever_returns = 1
           /\ inflight = {}
           /\ fpc = "idle"
    /\ pc = "generate" =>
           /\ generator_calls = scorer_calls + 1
           /\ scorer_calls = Len(attempts)
    /\ pc = "evaluate" =>
           /\ generator_calls = scorer_calls
           /\ scorer_calls = Len(attempts) + 1
    /\ scorer_calls <= generator_calls
    /\ generator_calls <= scorer_calls + 1

\* C18: every step of a run leaves its calls in stage order: the one
\* retriever call has returned before any classifier call is issued, no
\* classifier call is pending once a generator call was made, a scorer
\* call is issued only by the step in which the generator call of the same
\* attempt returns, a generator call only when every earlier scorer call
\* has returned, and after the first generator call no retriever or
\* classifier call is issued.
C18_StagesRunForward ==
    [][/\ StagesInOrder'
       /\ scorer_calls' # scorer_calls =>
              /\ pc = "generate"
              /\ scorer_calls' = generator_calls
              /\ generator_calls' = generator_calls
       /\ generator_calls' # generator_calls =>
              /\ generator_calls' = generator_calls + 1
              /\ scorer_calls = generator_calls
              /\ Len(attempts') = scorer_calls
       /\ generator_calls > 0 =>
              /\ retriever_calls' = retriever_calls
              /\ classifier_calls' = classifier_calls]_vars

\* a run with the guardrail: one retrieval, two checks, two attempts
C18_Witness ==
    /\ pc = "done"
    /\ cfg.enable_guardrail
    /\ retriever_calls = 1
    /\ classifier_calls = 2
    /\ generator_calls = 2
    /\ scorer_calls = 2
    /\ result.success
    /\ result.correction_attempts = 2

\* C19: in a run with the guardrail disabled no classifier call is ever
\* made and the filter is never entered, the context of the correction
\* loop is assembled from all the retrieved passages, and a successful
\* result has documents_after_filter equal to documents_retrieved, the
\* number of passages retrieved.
C19_GuardrailDisabled ==
    ~cfg.enable_guardrail =>
        /\ classifier_calls = 0
        /\ pc # "filter"
        /\ fpc = "idle"
        /\ generator_calls > 0 =>
               /\ relevant_docs = documents
               /\ context = _prepare_context(documents, cfg.max_context_length)
        /\ (pc = "done" /\ result.success) =>
               /\ result.documents_retrieved = Len(documents)
               /\ result.documents_after_filter = result.documents_retrieved
               /\ result.source_context = context

\* a successful run on two passages with the guardrail disabled
C19_Witness ==
    /\ ~cfg.enable_guardrail
    /\ pc = "done"
    /\ result.success
    /\ Len(documents) = 2
    /\ result.documents_after_filter = 2
    /\ classifier_calls = 0

\* run() is awaiting a call to a collaborator
CallPending == pc \in {"retrieve", "generate", "evaluate"} \/ inflight # {}

\* C20: every external call is bounded by a timeout: whenever run() is
\* awaiting a retriever, classifier, generator or scorer call, the run can
\* take a step without the collaborator responding, the failure of that
\* call by timeout, so that a collaborator that never responds cannot keep
\* run() from returning.
C20_EveryCallTimesOut == CallPending => ENABLED TimeoutSteps

\* the write of the metrics file failed in this run
WriteFailed ==
    /\ cfg.metrics_enabled
    /\ record_query_calls > 0
    /\ metrics_file # WrittenFile(query_metrics)

\* C21: however the write of the metrics file ends, a finished run has made
\* one record_query call, an enabled collector holds the run's record
\* exactly once, no error other than those of validation and of the
\* collaborators was raised, and the result is what the collaborators'
\* outcomes make it: successful exactly when no error was raised and an
\* attempt was evaluated, then with the answer and score of an evaluated
\* attempt, and otherwise with score 0.
C21_MetricsWriteFailureHarmless ==
    pc = "done" =>
        /\ record_query_calls = 1
        /\ cfg.metrics_enabled => query_metrics = <<metrics>>
        /\ metrics_file \in {NoFile, StaleFile, WrittenFile(query_metrics)}
        /\ raised.stage \in
               {"none", "validation", "retriever", "generator", "scorer"}
        /\ result.success <=> (raised = NoError /\ attempts # << >>)
        /\ result.success =>
               \E j \in AttemptIndices :
                   /\ result.answer = attempts[j].answer
                   /\ result.score = attempts[j].score
        /\ ~result.success => result.score = 0

\* a successful run whose write of the metrics file failed
C21_Witness ==
    /\ pc = "done"
    /\ WriteFailed
    /\ metrics_file = StaleFile
    /\ query_metrics = <<metrics>>
    /\ result.success
    /\ result.score = 5
    /\ raised = NoError

\* C22: an Evaluation is accepted exactly for the scores 1..5 (0 and 6 are
\* rejected), every evaluated attempt has such a score, and the result of
\* a finished run has a score in 1..5 exactly when it is successful and
\* the score 0 exactly when it is not.
C22_ScoreRange ==
    /\ \A s \in RawScores : EvaluationAccepts(s) <=> s \in 1..5
    /\ ~EvaluationAccepts(0)
    /\ ~EvaluationAccepts(6)
    /\ \A k \in AttemptIndices : attempts[k].score \in 1..5
    /\ pc = "done" =>
           /\ result.success <=> result.score \in 1..5
           /\ ~result.success <=> result.score = 0

\* the scoring model answered out of range after one evaluated attempt
C22_Witness ==
    /\ pc = "done"
    /\ raised = [stage |-> "scorer", text |-> ScoreErrorText]
    /\ Len(attempts) = 1
    /\ scorer_calls = 2
    /\ result.success = FALSE
    /\ result.score = 0

IsSanitized(s) ==
    /\ s # << >>
    /\ s[1] \notin Whitespace
    /\ s[Len(s)] \notin Whitespace
    /\ \A i \in 1..Len(s) : s[i] \notin ControlChars
    /\ \A i \in 1..(Len(s) - 1) :
           ~(s[i] \in Whitespace /\ s[i + 1] \in Whitespace)

\* C23: the question that validate_query returned and run() passes to the
\* retriever is non-empty, has no leading or trailing whitespace, no
\* control character and no two adjacent whitespace characters, and it is
\* the question given to run() when that one already was so.
C23_SanitizedQuestion ==
    pc = "retrieve" =>
        /\ IsSanitized(question)
        /\ IsSanitized(RawQuestion) => question = RawQuestion

\* the result a call returns when it runs alone and its collaborators
\* answer as the frame f saw them answer
ReturnedAlone(f) ==
    LET n == Len(f.attempts)
        accepted == {k \in 1..n :
                        f.attempts[k].score >= cfg.min_acceptable_score}
        best == CHOOSE k \in 1..n :
                    /\ \A j \in 1..n :
                           f.attempts[j].score <= f.attempts[k].score
                    /\ \A j \in 1..(k - 1) :
                           f.attempts[j].score < f.attempts[k].score
        k == IF accepted # {} THEN CHOOSE a \in accepted : TRUE ELSE best
    IN  [question |-> f.question, answer |-> AnswerText(k),
         score |-> f.attempts[k].score,
         score_justification |-> ScoreJustification(k),
         source_context |->
             _prepare_context(f.relevant_docs, cfg.max_context_length),
         documents_retrieved |-> Len(f.documents),
         documents_after_filter |-> Len(f.relevant_docs),
         correction_attempts |-> k, success |-> TRUE,
         error_message |-> None]

\* the finished call c, whose frame is f, returned what it returns alone
Isolated(f, c) ==
    f.pc = "done" =>
        /\ f.question \in CallQuestions(c)
        /\ f.metrics.question = f.question
        /\ IF f.raised # NoError
           THEN /\ f.result.question = f.question
                /\ ~f.result.success
                /\ f.result.score = 0
                /\ f.result.error_message \in
                       {f.raised.text,
                        <<"Document retrieval failed: ">> \o f.raised.text}
                /\ f.metrics.error_message = f.result.error_message
           ELSE IF f.documents = << >>
           THEN f.result = _create_no_documents_result(f.question)
           ELSE IF f.relevant_docs = << >>
           THEN f.result = _create_no_relevant_context_result(
                               f.question, Len(f.documents))
           ELSE /\ f.attempts # << >>
                /\ f.result = ReturnedAlone(f)
                /\ f.metrics.final_score = f.result.score
                /\ f.metrics.correction_attempts = Len(f.attempts)

DoneCalls ==
    (IF pc = "done" THEN 1 ELSE 0) + (IF parked.pc = "done" THEN 1 ELSE 0)

Recorded(f) ==
    f.pc = "done" => \E i \in 1..Len(query_metrics) : query_metrics[i] = f.metrics

\* C24 as stated: each of the interleaved run() calls returns the result it
\* returns alone with the same collaborator outcomes, and the collector
\* holds exactly one record per finished call, whatever its configuration.
C24_OneRecordPerCallAlways ==
    /\ Isolated(CurrentFrame, current)
    /\ Isolated(parked, 3 - current)
    /\ Len(query_metrics) = DoneCalls
    /\ Recorded(CurrentFrame)
    /\ Recorded(parked)

\* C24: each of the interleaved run() calls returns the result it returns
\* alone with the same collaborator outcomes; an enabled collector holds
\* exactly one record per finished call, the call's own, and a disabled one
\* holds none.
C24_ConcurrentRunsIsolated ==
    /\ Isolated(CurrentFrame, current)
    /\ Isolated(parked, 3 - current)
    /\ record_query_calls = DoneCalls
    /\ IF cfg.metrics_enabled
       THEN /\ Len(query_metrics) = DoneCalls
            /\ Recorded(CurrentFrame)
            /\ Recorded(parked)
       ELSE query_metrics = << >>

\* the second call returned its first answer while the first call, started
\* before it, waits for the score of its second attempt
C24_Witness ==
    /\ current = 2
    /\ pc = "done"
    /\ result.success
    /\ result.correction_attempts = 1
    /\ result.question = <<"a", "a">>
    /\ parked.pc = "evaluate"
    /\ parked.attempt = 1
    /\ parked.question = <<"a">>
    /\ Len(parked.attempts) = 1
    /\ cfg.metrics_enabled
    /\ query_metrics = <<metrics>>

\* C25: on an enabled collector the stored list is, after any interleaving
\* of record_query and clear_metrics calls of several threads, the records
\* that took effect since the last clear, in that order; at most one thread
\* is inside the lock; and an aggregate computed while no call changed the
\* list reports that count as total_queries, with successful_queries +
\* failed_queries = total_queries.
C25_CollectorBookkeeping ==
    cfg.metrics_enabled =>
        /\ query_metrics = RecordsSinceLastClear(history)
        /\ \A t \in Threads :
               tpc[t] \in {"append", "save", "clearing"} <=> lock = t
        /\ (apc = "returned" /\ agg.quiet) =>
               /\ agg.metrics.total_queries = agg.recorded
               /\ agg.metrics.successful_queries + agg.metrics.failed_queries
                      = agg.metrics.total_queries

\* a clear, then a record of thread 1, which still holds the lock while
\* thread 2 waits for it with a record of its own; the aggregate counted
\* the one stored record
C25_Witness ==
    /\ cfg.metrics_enabled
    /\ lock = 1
    /\ tpc[1] = "save"
    /\ tpc[2] = "record"
    /\ Len(history) = 2
    /\ history[1].op = "clear"
    /\ history[2].op = "record"
    /\ Len(query_metrics) = 1
    /\ apc = "returned"
    /\ agg.quiet
    /\ agg.metrics.total_queries = 1
    /\ agg.metrics.successful_queries = 1

\* C26: every Config() call returned the same instance; right after a
\* set(k, v) call get(k) returns v; and get of a path that no set or load
\* gave a value returns the supplied default.
C26_ConfigRoundTrip ==
    /\ Cardinality(handles) <= 1
    /\ last_op.op = "set" =>
           get(_config, last_op.path, Default) = last_op.value
    /\ \A p \in KeyPaths :
           p \notin assigned => get(_config, p, Default) = Default

BadPath(file) == file = << >> \/ HasDotDot(file) \/ file[1] = "/"

IsPrefixOf(a, b) == Len(a) <= Len(b) /\ SubSeq(b, 1, Len(a)) = a

\* what load_document does whether or not it validates paths
LoadOutcome ==
    /\ ~BadPath(file_path) =>
           validate_file_path(file_path) =
               [ok |-> TRUE, value |-> file_path, error |-> "none"]
    /\ IsPrefixOf(checks, IF validate_paths
                          THEN <<"path", "exists", "format", "load">>
                          ELSE <<"exists", "format", "load">>)
    /\ lpc = "raised" => loaded.kind = "DocumentLoaderError"
    /\ lpc = "returned" =>
           /\ loaded.kind = "documents"
           /\ Suffix(file_path) \in SUPPORTED_FORMATS
           /\ checks[Len(checks)] = "load"
    /\ lpc \in {"raised", "returned"} =>
           /\ Suffix(file_path) \notin SUPPORTED_FORMATS =>
                  loaded.kind = "DocumentLoaderError"
           /\ loaded.message = "Unsupported file format" =>
                  checks[Len(checks)] = "format"
           /\ loaded.message = "File not found" =>
                  checks[Len(checks)] = "exists"
           /\ loaded.message = "Error loading" =>
                  checks[Len(checks)] = "load"

\* C27 as stated: load_document ends with a DocumentLoaderError or a
\* document list, the checks run in the order path, existence, format, and
\* every path that contains '..' or starts with '/' is refused with a
\* DocumentLoaderError.
C27_BadPathAlwaysRefused ==
    /\ LoadOutcome
    /\ (lpc \in {"raised", "returned"} /\ BadPath(file_path)) =>
           loaded.kind = "DocumentLoaderError"

\* C27: load_document ends with a DocumentLoaderError or a document list,
\* the checks run in the order path, existence, format, a valid relative
\* path is returned unchanged by validate_file_path, and a loader that
\* validates paths refuses every path that contains '..' or starts with '/'
\* with a DocumentLoaderError before any other check.
C27_LoaderRejections ==
    /\ LoadOutcome
    /\ (lpc \in {"raised", "returned"} /\ BadPath(file_path)
            /\ validate_paths) =>
           /\ loaded = DocumentLoaderError("Invalid file path")
           /\ checks = <<"path">>

\* an absolute path to a text file is refused at the path check
C27_Witness ==
    /\ lpc = "raised"
    /\ validate_paths
    /\ file_path = <<"/", "d", ".", "txt">>
    /\ checks = <<"path">>
    /\ loaded = DocumentLoaderError("Invalid file path")

\* C28: a parallel filter_documents call over n > 1 passages has issued all
\* n classifier calls while any of them is pending, and it returns only when
\* none is pending and all n have completed; a sequential call, or a call
\* over one passage, has exactly one call pending, the call for passage fi,
\* which is the fi-th call it issued.
C28_FanOutJoinBarrier ==
    /\ fpc = "parallel" =>
           /\ hpc = "parallel"
           /\ Len(documents) > 1
           /\ classifier_calls = Len(documents)
           /\ inflight = (1..Len(documents)) \ Checked
    /\ fpc = "returned" =>
           /\ inflight = {}
           /\ (hpc = "parallel" /\ Len(documents) > 1) =>
                  {completed[k] : k \in 1..Len(completed)} = 1..Len(documents)
    /\ fpc = "sequential" =>
           /\ hpc = "sequential" \/ Len(documents) = 1
           /\ inflight = {fi}
           /\ classifier_calls = fi
    /\ (hpc = "sequential" \/ Len(documents) <= 1) =>
           Cardinality(inflight) <= 1

\* as many calls in flight at once as there are passages, none completed
C28_Witness ==
    /\ hpc = "parallel"
    /\ fpc = "parallel"
    /\ Len(documents) = MaxFilterDocs
    /\ inflight = 1..MaxFilterDocs
    /\ completed = << >>
    /\ classifier_calls = MaxFilterDocs

CallCeilings ==
    /\ retriever_calls <= 1
    /\ classifier_calls <= Len(documents)
    /\ generator_calls <= cfg.max_correction_attempts
    /\ scorer_calls <= cfg.max_correction_attempts

\* C29: when every pending retriever, classifier, generator and scorer call
\* eventually returns or raises, a run() that was called eventually returns
\* its result, and at no time has it made more than one retriever call, one
\* classifier call per retrieved passage, max_correction_attempts generator
\* calls or max_correction_attempts scorer calls.
C29_Termination ==
    /\ [](CallCeilings)
    /\ (pc # "idle") ~> (pc = "done")

\* a run that used every call it may make
C29_Witness ==
    /\ pc = "done"
    /\ retriever_calls = 1
    /\ Len(documents) = MaxDocs
    /\ classifier_calls = MaxDocs
    /\ cfg.max_correction_attempts = MaxAttempts
    /\ generator_calls = MaxAttempts
    /\ scorer_calls = MaxAttempts
    /\ result.success

\* C30: a successful result has a score at least that of every attempt
\* evaluated in its run, whether the run ended by acceptance or by
\* exhaustion, and once an attempt was evaluated the best attempt kept by
\* the loop is present and carries the highest score so far.
C30_ReturnedIsMaximum ==
    /\ (pc = "done" /\ result.success) =>
           \A k \in AttemptIndices : result.score >= attempts[k].score
    /\ attempts # << >> =>
           /\ best_result # NoneResult
           /\ best_result.score = best_score
           /\ \A k \in AttemptIndices : best_score >= attempts[k].score
           /\ \E k \in AttemptIndices : best_score = attempts[k].score

\* three attempts scored 2, 3, 1 under a threshold of 4: the second is
\* returned
C30_Witness ==
    /\ pc = "done"
    /\ cfg.min_acceptable_score = 4
    /\ cfg.max_correction_attempts = 3
    /\ Len(attempts) = 3
    /\ attempts[1].score = 2
    /\ attempts[2].score = 3
    /\ attempts[3].score = 1
    /\ result.success
    /\ result.score = 3
    /\ result.correction_attempts = 2

\* C31: the correction_attempts of a successful result is the number of
\* generator calls its run made, and is the correction_attempts of the
\* QueryMetrics of the run.
C31_AttemptsReported ==
    (pc = "done" /\ result.success) =>
        /\ result.correction_attempts = generator_calls
        /\ result.correction_attempts = metrics.correction_attempts

\* C32: when run() is over, the success flag and the final_score of its
\* QueryMetrics are the success flag and the score of the result it
\* returned.
C32_RecordedOutcome ==
    pc = "done" =>
        /\ metrics.success = result.success
        /\ metrics.final_score = result.score

\* C33: when run() is over and its retriever call returned, the
\* documents_retrieved and documents_after_filter of its QueryMetrics are
\* those of the result it returned.
C33_RecordedCounts ==
    (pc = "done" /\ retriever_returns = 1) =>
        /\ metrics.documents_retrieved = result.documents_retrieved
        /\ metrics.documents_after_filter = result.documents_after_filter

InLoop == pc \in {"generate", "evaluate"}

\* C34: the context is assembled from the relevant passages in the step
\* that issues the first generator call and at no other time; while
\* generator and scorer calls are made the context, the question and the
\* relevant passages stay as they are; and a successful result carries that
\* context and that question.
C34_ContextFixed ==
    [][/\ InLoop => /\ context' = context
                    /\ question' = question
                    /\ relevant_docs' = relevant_docs
       /\ context' # context => /\ ~InLoop
                                /\ pc' = "generate"
                                /\ generator_calls' = 1
       /\ (~InLoop /\ pc' = "generate") =>
              context' = _prepare_context(relevant_docs',
                                          cfg.max_context_length)
       /\ (pc # "done" /\ pc' = "done" /\ result'.success) =>
              /\ result'.source_context = context
              /\ result'.question = question]_vars

\* the third scorer call is pending on the context of the first
C34_Witness ==
    /\ pc = "evaluate"
    /\ scorer_calls = 3
    /\ generator_calls = 3
    /\ Len(relevant_docs) = 1
    /\ Len(documents) = 2
    /\ context = _prepare_context(relevant_docs, cfg.max_context_length)
    /\ context # << >>

\* the justification the classifier call on passage i of the input gave, or
\* the text recorded for it when the call raised
JustificationAt(i) ==
    IF verdicts[i] = "error" THEN ErrorJustification(documents[i])
    ELSE ClassifierJustification(documents[i])

\* pos picks the entries of out from the input, left to right, and picks
\* exactly the passages whose check answered relevant or raised
AlignedVia(pos, out) ==
    /\ \A a, b \in DOMAIN pos : a < b => pos[a] < pos[b]
    /\ {pos[k] : k \in DOMAIN pos} =
           {i \in 1..Len(documents) : verdicts[i] \in {"relevant", "error"}}
    /\ \A k \in DOMAIN pos :
           /\ out.relevant_docs[k] = documents[pos[k]]
           /\ out.justifications[k] = JustificationAt(pos[k])

AlignedSubsequence(out) ==
    /\ Len(out.justifications) = Len(out.relevant_docs)
    /\ Len(out.relevant_docs) <= Len(documents)
    /\ \E pos \in [1..Len(out.relevant_docs) -> 1..Len(documents)] :
           AlignedVia(pos, out)

\* C35: in parallel and in sequential mode, the relevant passages returned
\* by filter_documents are a subsequence of the input holding exactly the
\* passages whose classifier call answered relevant or raised, and the
\* justification list has the same length, entry k belonging to passage k.
C35_AlignedSubsequence ==
    hpc = "done" => AlignedSubsequence(par_out) /\ AlignedSubsequence(seq_out)

\* a relevant passage, a dropped one, then one whose check raised
C35_Witness ==
    /\ hpc = "done"
    /\ Len(documents) = 3
    /\ verdicts = <<"relevant", "irrelevant", "error">>
    /\ par_out.relevant_docs = <<documents[1], documents[3]>>
    /\ seq_out.justifications = <<ClassifierJustification(documents[1]),
                                  ErrorJustification(documents[3])>>

\* C36: the question validate_query returned for an accepted query is itself
\* accepted by validate_query, under the same length bound, and returned
\* unchanged.
C36_ValidationIdempotent ==
    pc = "retrieve" =>
        LET again == validate_query(question, cfg.max_query_length)
        IN  /\ again.ok
            /\ again.value = question

\* C37: a returned result with success=true has
\* 1 <= documents_after_filter <= documents_retrieved and
\* 1 <= correction_attempts <= max_correction_attempts; a returned result
\* with success=false has correction_attempts = 0 and
\* documents_after_filter = 0.
C37_ResultCounts ==
    pc = "done" =>
        IF result.success
        THEN /\ 1 <= result.documents_after_filter
             /\ result.documents_after_filter <= result.documents_retrieved
             /\ 1 <= result.correction_attempts
             /\ result.correction_attempts <= cfg.max_correction_attempts
        ELSE /\ result.correction_attempts = 0
             /\ result.documents_after_filter = 0

\* a run whose last allowed attempt was accepted, on one passage of the two
\* retrieved
C37_Witness ==
    /\ pc = "done"
    /\ result.success
    /\ result.documents_retrieved = 2
    /\ result.documents_after_filter = 1
    /\ result.correction_attempts = MaxAttempts
    /\ cfg.max_correction_attempts = MaxAttempts

\* the Documents of the files that loaded, in the order of the paths
RECURSIVE LoadedPages(_)
LoadedPages(k) ==
    IF k = 0 THEN << >>
    ELSE LoadedPages(k - 1)
             \o (IF loads[k].ok THEN Pages(file_paths[k], loads[k].pages)
                 ELSE << >>)

BatchFinished == bpc \in {"returned", "raised"}

\* load_documents returns the Documents of every file that loaded, in the
\* order of the paths, and raises only for an empty list of paths or when
\* every file failed
C38_RaisesOnlyWhenAllFail ==
    BatchFinished =>
        /\ bpc = "returned" =>
               /\ Len(loads) = Len(file_paths)
               /\ all_documents = LoadedPages(Len(file_paths))
        /\ bpc = "raised" =>
               \/ file_paths = << >>
               \/ /\ Len(loads) = Len(file_paths)
                  /\ \A i \in 1..Len(loads) : ~loads[i].ok

\* C38: load_documents tries every path; for an empty list it raises
\* DocumentLoaderError; otherwise it raises DocumentLoaderError exactly when
\* no Document was loaded and at least one file failed, and else returns the
\* Documents of every file that loaded, concatenated in the order of the
\* paths.
C38_PartialFailureTolerated ==
    BatchFinished =>
        IF file_paths = << >>
        THEN bpc = "raised" /\ batch_raised = "No file paths provided"
        ELSE /\ Len(loads) = Len(file_paths)
             /\ Len(errors) = Cardinality({i \in 1..Len(loads) : ~loads[i].ok})
             /\ IF /\ LoadedPages(Len(file_paths)) = << >>
                   /\ \E i \in 1..Len(loads) : ~loads[i].ok
                THEN /\ bpc = "raised"
                     /\ batch_raised = "Failed to load any documents"
                ELSE /\ bpc = "returned"
                     /\ all_documents = LoadedPages(Len(file_paths))

\* the first file fails, the second is a PDF of two pages
C38_Witness ==
    /\ bpc = "returned"
    /\ Len(file_paths) = 2
    /\ ~loads[1].ok
    /\ loads[2].ok
    /\ all_documents = Pages(file_paths[2], 2)
    /\ Len(errors) = 1

\* the last create_knowledge_base call that succeeded was not followed by
\* a clear_knowledge_base call
RECURSIVE KnowledgeBaseLive(_)
KnowledgeBaseLive(log) ==
    IF log = << >> THEN FALSE
    ELSE LET last == log[Len(log)]
         IN  IF last.op = "clear" THEN FALSE
             ELSE IF last.op = "create" /\ last.ok THEN TRUE
             ELSE KnowledgeBaseLive(SubSeq(log, 1, Len(log) - 1))

LastCall == web_log'[Len(web_log')]

\* C39: in the web front end, chat_with_documents calls rag_pipeline.run only
\* while the last successful create_knowledge_base has not been followed by
\* clear_knowledge_base; otherwise it appends one error reply to the history
\* and does not run the pipeline; a create_knowledge_base that fails leaves
\* rag_pipeline and current_kb_name as they were.
C39_ChatRequiresKnowledgeBase ==
    [][/\ run_calls' # run_calls =>
              /\ KnowledgeBaseLive(web_log)
              /\ LastCall.op = "chat"
              /\ run_calls' = run_calls + 1
       /\ (LastCall.op = "chat" /\ ~KnowledgeBaseLive(web_log)) =>
              /\ run_calls' = run_calls
              /\ Len(chat_history') = Len(chat_history) + 1
              /\ chat_history'[Len(chat_history')].assistant
                     = NoKnowledgeBaseReply
              /\ SubSeq(chat_history', 1, Len(chat_history)) = chat_history
       /\ (LastCall.op = "create" /\ ~LastCall.ok) =>
              /\ rag_pipeline' = rag_pipeline
              /\ current_kb_name' = current_kb_name
       /\ (rag_pipeline # 0) = KnowledgeBaseLive(web_log)]_vars

\* a question answered from a knowledge base, the knowledge base cleared,
\* and a second question refused
C39_Witness ==
    /\ Len(web_log) = 4
    /\ web_log[1] = [op |-> "create", ok |-> TRUE]
    /\ web_log[2] = [op |-> "chat", ok |-> TRUE]
    /\ web_log[3].op = "clear"
    /\ web_log[4].op = "chat"
    /\ run_calls = 1
    /\ Len(chat_history) = 3
    /\ rag_pipeline = 0

=============================================================================
